---- MODULE Spec2Model ----
(***************************************************************************)
(* Indicator scoring engine of crypto_analysis (django_app/main):          *)
(* calculators, the stock-indicators adapter, Indicator dispatch, the      *)
(* range calculator with its IndicatorData upserts, the other writers of   *)
(* the IndicatorData table and the score summary.                          *)
(*                                                                         *)
(* Numbers.  Python floats are modelled as exact rationals [n, d] in       *)
(* lowest terms with d > 0.  Dates are day numbers, timedelta(days=k) is   *)
(* the integer k.  A Python exception is the result Fail(name).            *)
(***************************************************************************)
EXTENDS Integers, Sequences, FiniteSets, TLC

\* ------------------------------------------------------------------ bounds
MaxDate == 3           \* dates are 1..MaxDate
MaxClose == 2          \* closing prices are 1..MaxClose
MaxWorkers == 2        \* concurrent callers of calculate_indicator_for_date_range

Dates == 1..MaxDate
Closes == 1..MaxClose
Workers == 1..MaxWorkers

\* ------------------------------------------------------------- rationals
Abs(x) == IF x < 0 THEN -x ELSE x
Min(a, b) == IF a < b THEN a ELSE b
Max(a, b) == IF a > b THEN a ELSE b

RECURSIVE GCD(_, _)
GCD(a, b) == IF b = 0 THEN a ELSE GCD(b, a % b)

Frac(n, d) ==
    LET s == IF d < 0 THEN -1 ELSE 1
        g == GCD(Abs(n), Abs(d))
    IN  [n |-> (s * n) \div g, d |-> (s * d) \div g]

R(i) == [n |-> i, d |-> 1]
RAdd(a, b) == Frac(a.n * b.d + b.n * a.d, a.d * b.d)
RSub(a, b) == Frac(a.n * b.d - b.n * a.d, a.d * b.d)
RMul(a, b) == Frac(a.n * b.n, a.d * b.d)
RDiv(a, b) == Frac(a.n * b.d, a.d * b.n)
RNeg(a) == [n |-> -a.n, d |-> a.d]
RLt(a, b) == a.n * b.d < b.n * a.d
RLe(a, b) == a.n * b.d <= b.n * a.d
RAbs(a) == [n |-> Abs(a.n), d |-> a.d]

\* Python None in a numeric position (never a rational: d = 0)
None == [n |-> 0, d |-> 0]
\* Python None in a string position
NoneStr == "None"

\* result of a call: a returned value or a raised exception
Ok(v) == [ok |-> TRUE, value |-> v, err |-> "-"]
Fail(e) == [ok |-> FALSE, value |-> None, err |-> e]

\* dict.get(key, default)
Get(cfg, key, default) == IF key \in DOMAIN cfg THEN cfg[key] ELSE default

\* seq[:k] of Python, k of either sign
PyPrefix(s, k) ==
    IF k >= 0 THEN SubSeq(s, 1, Min(k, Len(s)))
    ELSE SubSeq(s, 1, Max(Len(s) + k, 0))

RECURSIVE SumSeq(_)
SumSeq(s) == IF s = << >> THEN 0 ELSE Head(s) + SumSeq(Tail(s))

Reverse(s) == [i \in 1..Len(s) |-> s[Len(s) + 1 - i]]

\* ------------------------------------------------------- BaseCalculator
validate_value_noUpper(value) ==
    IF RLt(value, R(-1)) THEN R(-1) ELSE value

validate_value(value) ==
    IF RLt(value, R(-1)) THEN R(-1)
    ELSE IF RLt(R(1), value) THEN R(1)
    ELSE value

\* ------------------------------------------------- price data (one ticker)
\* bars maps each date that has a TickerData row to its close
DefaultTicker == "X:BTCUSD"

\* TickerData.objects.filter(ticker, date__gte=lo, date__lte=hi).order_by('date')
RECURSIVE QueryDates(_, _, _)
QueryDates(bars, lo, hi) ==
    IF hi < lo \/ hi < 1 THEN << >>
    ELSE IF hi \in DOMAIN bars
         THEN Append(QueryDates(bars, lo, hi - 1), hi)
         ELSE QueryDates(bars, lo, hi - 1)

QueryCloses(bars, lo, hi) ==
    LET ds == QueryDates(bars, lo, hi)
    IN  [i \in 1..Len(ds) |-> bars[ds[i]]]

\* ----------------------------------------------------------------- RSI
RsiExtraDays == 20
RsiDefaultPeriod == 14
RsiDefaultOversold == 30
RsiDefaultOverbought == 70
RsiNeutral == 50

\* the smoothing loop `for i in range(period, len(gains))`, i 0-based;
\* a negative i indexes from the end and raises IndexError past the start
RECURSIVE WilderLoop(_, _, _, _, _, _)
WilderLoop(gains, losses, period, i, avg_gain, avg_loss) ==
    IF i >= Len(gains) THEN [ok |-> TRUE, g |-> avg_gain, l |-> avg_loss]
    ELSE LET k == IF i < 0 THEN Len(gains) + i + 1 ELSE i + 1
         IN  IF k < 1 THEN [ok |-> FALSE, g |-> avg_gain, l |-> avg_loss]
             ELSE WilderLoop(gains, losses, period, i + 1,
                    RDiv(RAdd(RMul(avg_gain, R(period - 1)), R(gains[k])), R(period)),
                    RDiv(RAdd(RMul(avg_loss, R(period - 1)), R(losses[k])), R(period)))

\* RSI without the avg_loss == 0 test: the division is always performed
_calculate_rsi_noZeroGuard(prices, period) ==
    LET deltas == [i \in 1..(Len(prices) - 1) |-> prices[i + 1] - prices[i]]
        gains  == [i \in 1..Len(deltas) |-> IF deltas[i] > 0 THEN deltas[i] ELSE 0]
        losses == [i \in 1..Len(deltas) |-> IF deltas[i] < 0 THEN -deltas[i] ELSE 0]
    IN  IF period = 0 THEN Fail("ZeroDivisionError")
        ELSE LET w == WilderLoop(gains, losses, period, period,
                        Frac(SumSeq(PyPrefix(gains, period)), period),
                        Frac(SumSeq(PyPrefix(losses, period)), period))
             IN  IF ~w.ok THEN Fail("IndexError")
                 ELSE IF w.l.n = 0 THEN Fail("ZeroDivisionError")
                 ELSE LET rs == RDiv(w.g, w.l)
                      IN  IF RAdd(R(1), rs).n = 0 THEN Fail("ZeroDivisionError")
                          ELSE Ok(RSub(R(100), RDiv(R(100), RAdd(R(1), rs))))

\* RSI from the seed averages alone, the smoothing loop left out
_calculate_rsi_seedOnly(prices, period) ==
    LET deltas == [i \in 1..(Len(prices) - 1) |-> prices[i + 1] - prices[i]]
        gains  == [i \in 1..Len(deltas) |-> IF deltas[i] > 0 THEN deltas[i] ELSE 0]
        losses == [i \in 1..Len(deltas) |-> IF deltas[i] < 0 THEN -deltas[i] ELSE 0]
    IN  IF period = 0 THEN Fail("ZeroDivisionError")
        ELSE LET w == [ok |-> TRUE,
                       g |-> Frac(SumSeq(PyPrefix(gains, period)), period),
                       l |-> Frac(SumSeq(PyPrefix(losses, period)), period)]
             IN  IF ~w.ok THEN Fail("IndexError")
                 ELSE IF w.l.n = 0 THEN Ok(R(100))
                 ELSE LET rs == RDiv(w.g, w.l)
                      IN  IF RAdd(R(1), rs).n = 0 THEN Fail("ZeroDivisionError")
                          ELSE Ok(RSub(R(100), RDiv(R(100), RAdd(R(1), rs))))

\* RSI with gains and losses taken for each other
_calculate_rsi_lossesAsGains(prices, period) ==
    LET deltas == [i \in 1..(Len(prices) - 1) |-> prices[i + 1] - prices[i]]
        gains  == [i \in 1..Len(deltas) |-> IF deltas[i] < 0 THEN -deltas[i] ELSE 0]
        losses == [i \in 1..Len(deltas) |-> IF deltas[i] > 0 THEN deltas[i] ELSE 0]
    IN  IF period = 0 THEN Fail("ZeroDivisionError")
        ELSE LET w == WilderLoop(gains, losses, period, period,
                        Frac(SumSeq(PyPrefix(gains, period)), period),
                        Frac(SumSeq(PyPrefix(losses, period)), period))
             IN  IF ~w.ok THEN Fail("IndexError")
                 ELSE IF w.l.n = 0 THEN Ok(R(100))
                 ELSE LET rs == RDiv(w.g, w.l)
                      IN  IF RAdd(R(1), rs).n = 0 THEN Fail("ZeroDivisionError")
                          ELSE Ok(RSub(R(100), RDiv(R(100), RAdd(R(1), rs))))

_calculate_rsi(prices, period) ==
    LET deltas == [i \in 1..(Len(prices) - 1) |-> prices[i + 1] - prices[i]]
        gains  == [i \in 1..Len(deltas) |-> IF deltas[i] > 0 THEN deltas[i] ELSE 0]
        losses == [i \in 1..Len(deltas) |-> IF deltas[i] < 0 THEN -deltas[i] ELSE 0]
    IN  IF period = 0 THEN Fail("ZeroDivisionError")
        ELSE LET w == WilderLoop(gains, losses, period, period,
                        Frac(SumSeq(PyPrefix(gains, period)), period),
                        Frac(SumSeq(PyPrefix(losses, period)), period))
             IN  IF ~w.ok THEN Fail("IndexError")
                 ELSE IF w.l.n = 0 THEN Ok(R(100))
                 ELSE LET rs == RDiv(w.g, w.l)
                      IN  IF RAdd(R(1), rs).n = 0 THEN Fail("ZeroDivisionError")
                          ELSE Ok(RSub(R(100), RDiv(R(100), RAdd(R(1), rs))))

\* RSI scoring whose outer tests are strict: a value on a threshold is
\* interpolated
_rsi_to_score_strictBounds(rsi, oversold, overbought) ==
    LET neutral == R(RsiNeutral)
    IN  IF RLt(rsi, oversold) THEN Ok(R(1))
        ELSE IF RLt(overbought, rsi) THEN Ok(R(-1))
        ELSE IF RLt(rsi, neutral)
             THEN IF RSub(neutral, oversold).n = 0 THEN Fail("ZeroDivisionError")
                  ELSE Ok(RDiv(RSub(neutral, rsi), RSub(neutral, oversold)))
             ELSE IF RSub(overbought, neutral).n = 0 THEN Fail("ZeroDivisionError")
                  ELSE Ok(RNeg(RDiv(RSub(rsi, neutral), RSub(overbought, neutral))))

_rsi_to_score(rsi, oversold, overbought) ==
    LET neutral == R(RsiNeutral)
    IN  IF RLe(rsi, oversold) THEN Ok(R(1))
        ELSE IF RLe(overbought, rsi) THEN Ok(R(-1))
        ELSE IF RLt(rsi, neutral)
             THEN IF RSub(neutral, oversold).n = 0 THEN Fail("ZeroDivisionError")
                  ELSE Ok(RDiv(RSub(neutral, rsi), RSub(neutral, oversold)))
             ELSE IF RSub(overbought, neutral).n = 0 THEN Fail("ZeroDivisionError")
                  ELSE Ok(RNeg(RDiv(RSub(rsi, neutral), RSub(overbought, neutral))))

\* RSICalculator.calculate; tickers is the set of known Ticker symbols
RSICalculator_calculate(config, date, tickers, bars) ==
    LET ticker_symbol == Get(config, "ticker", DefaultTicker)
        period == Get(config, "period", RsiDefaultPeriod)
        oversold == Get(config, "oversold_threshold", R(RsiDefaultOversold))
        overbought == Get(config, "overbought_threshold", R(RsiDefaultOverbought))
        price_data == QueryCloses(bars, date - (period + RsiExtraDays), date)
    IN  IF ticker_symbol \notin tickers THEN Fail("ValueError")
        ELSE IF Len(price_data) < period + 1 THEN Fail("ValueError")
        ELSE LET rsi == _calculate_rsi(price_data, period)
             IN  IF ~rsi.ok THEN Fail("ValueError")
                 ELSE LET score == _rsi_to_score(rsi.value, oversold, overbought)
                      IN  IF ~score.ok THEN Fail("ValueError")
                          ELSE Ok(validate_value(score.value))

\* ------------------------------------------------ example calculators
MaExtraDays == 10
MaDefaultShort == 7
MaDefaultLong == 30
VolExtraDays == 10
VolDefaultPeriod == 30
VolDefaultThreshold == 5
SqrtScale == 100       \* x ** 0.5 is taken to 1/SqrtScale, rounded down

ISqrt(m) == CHOOSE r \in 0..(SqrtScale * (MaxClose + 2)) :
                r * r <= m /\ (r + 1) * (r + 1) > m
RSqrt(x) == Frac(ISqrt((x.n * SqrtScale * SqrtScale) \div x.d), SqrtScale)

MovingAverageTrendCalculator_calculate(config, date, tickers, bars) ==
    LET ticker_symbol == Get(config, "ticker", DefaultTicker)
        short_period == Get(config, "short_period", MaDefaultShort)
        long_period == Get(config, "long_period", MaDefaultLong)
        price_data == Reverse(QueryCloses(bars, date - (long_period + MaExtraDays), date))
    IN  IF ticker_symbol \notin tickers THEN Fail("ValueError")
        ELSE IF Len(price_data) < long_period THEN Fail("ValueError")
        ELSE IF short_period = 0 \/ long_period = 0 THEN Fail("ValueError")
        ELSE LET short_ma == Frac(SumSeq(PyPrefix(price_data, short_period)), short_period)
                 long_ma == Frac(SumSeq(PyPrefix(price_data, long_period)), long_period)
             IN  IF long_ma.n = 0 THEN Fail("ValueError")
                 ELSE LET diff_percent == RMul(RDiv(RSub(short_ma, long_ma), long_ma), R(100))
                          normalized == RDiv(diff_percent, R(10))
                      IN  Ok(validate_value(normalized))

RECURSIVE SumSqDev(_, _)
SumSqDev(prices, mean) ==
    IF prices = << >> THEN R(0)
    ELSE LET dev == RSub(R(Head(prices)), mean)
         IN  RAdd(RMul(dev, dev), SumSqDev(Tail(prices), mean))

VolatilityCalculator_calculate(config, date, tickers, bars) ==
    LET ticker_symbol == Get(config, "ticker", DefaultTicker)
        period == Get(config, "period", VolDefaultPeriod)
        threshold == Get(config, "threshold", R(VolDefaultThreshold))
        price_data == Reverse(QueryCloses(bars, date - (period + VolExtraDays), date))
        prices == PyPrefix(price_data, period)
    IN  IF ticker_symbol \notin tickers THEN Fail("ValueError")
        ELSE IF Len(price_data) < period THEN Fail("ValueError")
        ELSE IF Len(prices) = 0 THEN Fail("ValueError")
        ELSE LET mean_price == Frac(SumSeq(prices), Len(prices))
                 variance == RDiv(SumSqDev(prices, mean_price), R(Len(prices)))
                 std_dev == RSqrt(variance)
             IN  IF mean_price.n = 0 \/ threshold.n = 0 THEN Fail("ValueError")
                 ELSE LET volatility_percent == RMul(RDiv(std_dev, mean_price), R(100))
                          normalized == RSub(RMul(RDiv(volatility_percent, threshold), R(2)), R(1))
                      IN  Ok(validate_value(normalized))

SimpleThresholdCalculator_calculate(config, date) ==
    LET value == Get(config, "threshold", Frac(1, 2))
    IN  IF value = None THEN Fail("TypeError")
        ELSE Ok(validate_value(value))

\* ---------------------------------------------------- settings registry
\* dataclass fields and defaults of each settings class
SettingsDefaults ==
    [RSISettings |-> [lookback_periods |-> R(14), oversold_threshold |-> R(30),
                      overbought_threshold |-> R(70)],
     MACDSettings |-> [fast_periods |-> R(12), slow_periods |-> R(26),
                       signal_periods |-> R(9)],
     SMASettings |-> [lookback_periods |-> R(20)],
     EMASettings |-> [lookback_periods |-> R(20)],
     BollingerBandsSettings |-> [lookback_periods |-> R(20),
                                 standard_deviations |-> R(2)],
     StochasticSettings |-> [lookback_periods |-> R(14), signal_periods |-> R(3),
                             smooth_periods |-> R(3), oversold_threshold |-> R(20),
                             overbought_threshold |-> R(80)],
     ATRSettings |-> [lookback_periods |-> R(14)],
     ADXSettings |-> [lookback_periods |-> R(14)],
     CCISettings |-> [lookback_periods |-> R(20), oversold_threshold |-> R(-100),
                      overbought_threshold |-> R(100)],
     WilliamsRSettings |-> [lookback_periods |-> R(14), oversold_threshold |-> R(-80),
                            overbought_threshold |-> R(-20)],
     OBVSettings |-> [sma_periods |-> None],
     ParabolicSARSettings |-> [acceleration_step |-> Frac(2, 100),
                               max_acceleration |-> Frac(2, 10)],
     IchimokuSettings |-> [tenkan_periods |-> R(9), kijun_periods |-> R(26),
                           senkou_span_b_periods |-> R(52)]]

\* get_indicator_name() of each settings class
get_indicator_name ==
    [RSISettings |-> "rsi", MACDSettings |-> "macd", SMASettings |-> "sma",
     EMASettings |-> "ema", BollingerBandsSettings |-> "bollinger_bands",
     StochasticSettings |-> "stoch", ATRSettings |-> "atr", ADXSettings |-> "adx",
     CCISettings |-> "cci", WilliamsRSettings |-> "williams_r", OBVSettings |-> "obv",
     ParabolicSARSettings |-> "psar", IchimokuSettings |-> "ichimoku"]

SETTINGS_REGISTRY ==
    [rsi |-> "RSISettings", macd |-> "MACDSettings", sma |-> "SMASettings",
     ema |-> "EMASettings", bollinger_bands |-> "BollingerBandsSettings",
     stochastic |-> "StochasticSettings", atr |-> "ATRSettings", adx |-> "ADXSettings",
     cci |-> "CCISettings", williams_r |-> "WilliamsRSettings", obv |-> "OBVSettings",
     parabolic_sar |-> "ParabolicSARSettings", ichimoku |-> "IchimokuSettings"]

\* a settings instance is [cls, f]: its class and its field values
from_dict(cls, data) ==
    [cls |-> cls,
     f |-> [k \in DOMAIN SettingsDefaults[cls] |->
              IF k \in DOMAIN data THEN data[k] ELSE SettingsDefaults[cls][k]]]

\* asdict(self) as it is, the None values kept
to_dict_keepNone(settings) == settings.f

to_dict(settings) ==
    [k \in {x \in DOMAIN settings.f : settings.f[x] # None} |-> settings.f[k]]

\* getattr(settings, name, default)
getattr(settings, name, default) ==
    IF name \in DOMAIN settings.f THEN settings.f[name] ELSE default

\* ---------------------------------------------- stock-indicators adapter
AdapterDefaultLookbackDays == 100
MomentumMacdScale == 5
MomentumObvScale == 10

indicator_map ==
    [rsi |-> "get_rsi", macd |-> "get_macd", sma |-> "get_sma", ema |-> "get_ema",
     bollinger_bands |-> "get_bollinger_bands", stoch |-> "get_stoch",
     atr |-> "get_atr", adx |-> "get_adx", cci |-> "get_cci",
     williams_r |-> "get_williams_r", obv |-> "get_obv", psar |-> "get_psar",
     ichimoku |-> "get_ichimoku"]

\* The external library.  A routine returns one record per quote, dated as
\* the quote.  What it computes is the environment's choice: lib.raises says
\* whether the call raises, lib.v[d] and lib.w[d] are the two numbers (or
\* None, during warm-up) of the record dated d.
LibRecord(func_name, d, lib) ==
    CASE func_name = "get_rsi" -> [date |-> d, rsi |-> lib.v[d]]
      [] func_name = "get_stoch" -> [date |-> d, oscillator |-> lib.v[d], signal |-> lib.w[d]]
      [] func_name = "get_cci" -> [date |-> d, cci |-> lib.v[d]]
      [] func_name = "get_williams_r" -> [date |-> d, williams_r |-> lib.v[d]]
      [] func_name = "get_macd" -> [date |-> d, macd |-> lib.v[d], signal |-> lib.w[d]]
      [] func_name = "get_obv" -> [date |-> d, obv |-> lib.v[d]]
      [] OTHER -> [date |-> d, value |-> lib.v[d]]

_get_settings(config) ==
    LET indicator_name == Get(config, "indicator_name", NoneStr)
        indicator_settings == Get(config, "indicator_settings", << >>)
        settings_class_path == Get(config, "settings_class", NoneStr)
    IN  IF settings_class_path # NoneStr
        THEN IF settings_class_path \in DOMAIN SettingsDefaults
             THEN Ok(from_dict(settings_class_path, indicator_settings))
             ELSE Fail("ImportError")
        ELSE IF indicator_name \notin DOMAIN SETTINGS_REGISTRY THEN Fail("ValueError")
        ELSE Ok(from_dict(SETTINGS_REGISTRY[indicator_name], indicator_settings))

\* the quotes are identified by their dates
_get_quotes(config, ticker_symbol, end_date, tickers, bars) ==
    LET lookback_days == Get(config, "lookback_days", AdapterDefaultLookbackDays)
        ticker_data == QueryDates(bars, end_date - lookback_days, end_date)
    IN  IF ticker_symbol \notin tickers THEN Fail("ValueError")
        ELSE IF ticker_data = << >> THEN Fail("ValueError")
        ELSE Ok(ticker_data)

_calculate_indicator(indicator_name, quotes, settings, lib) ==
    LET func_name == Get(indicator_map, indicator_name, NoneStr)
        params == to_dict(settings)
    IN  IF func_name = NoneStr THEN Fail("ValueError")
        ELSE IF lib.raises THEN Fail("ValueError")
        ELSE Ok([i \in 1..Len(quotes) |-> LibRecord(func_name, quotes[i], lib)])

\* auto-selection that knows the range strategy only
_get_auto_score_method_rangeOnly(indicator_name) == "range"

_get_auto_score_method(indicator_name) ==
    IF indicator_name \in {"rsi", "stoch", "cci", "williams_r"} THEN "threshold"
    ELSE IF indicator_name \in {"macd", "obv"} THEN "momentum"
    ELSE "range"

\* threshold scoring around a fixed neutral of 50
_score_threshold_neutral50(result, settings) ==
    LET has == \E a \in {"rsi", "oscillator", "cci", "williams_r"} : a \in DOMAIN result
        value == IF "rsi" \in DOMAIN result THEN result.rsi
                 ELSE IF "oscillator" \in DOMAIN result THEN result.oscillator
                 ELSE IF "cci" \in DOMAIN result THEN result.cci
                 ELSE result.williams_r
        oversold == getattr(settings, "oversold_threshold", R(30))
        overbought == getattr(settings, "overbought_threshold", R(70))
    IN  IF ~has THEN Fail("ValueError")
        ELSE IF value = None THEN Fail("ValueError")
        ELSE IF oversold = None \/ overbought = None THEN Fail("TypeError")
        ELSE LET neutral == R(50)
             IN  IF RLe(value, oversold) THEN Ok(R(1))
                 ELSE IF RLe(overbought, value) THEN Ok(R(-1))
                 ELSE IF RLt(value, neutral)
                      THEN IF RSub(neutral, oversold).n = 0 THEN Fail("ZeroDivisionError")
                           ELSE Ok(RDiv(RSub(neutral, value), RSub(neutral, oversold)))
                      ELSE IF RSub(overbought, neutral).n = 0 THEN Fail("ZeroDivisionError")
                           ELSE Ok(RNeg(RDiv(RSub(value, neutral), RSub(overbought, neutral))))

_score_threshold(result, settings) ==
    LET has == \E a \in {"rsi", "oscillator", "cci", "williams_r"} : a \in DOMAIN result
        value == IF "rsi" \in DOMAIN result THEN result.rsi
                 ELSE IF "oscillator" \in DOMAIN result THEN result.oscillator
                 ELSE IF "cci" \in DOMAIN result THEN result.cci
                 ELSE result.williams_r
        oversold == getattr(settings, "oversold_threshold", R(30))
        overbought == getattr(settings, "overbought_threshold", R(70))
    IN  IF ~has THEN Fail("ValueError")
        ELSE IF value = None THEN Fail("ValueError")
        ELSE IF oversold = None \/ overbought = None THEN Fail("TypeError")
        ELSE LET neutral == RDiv(RAdd(oversold, overbought), R(2))
             IN  IF RLe(value, oversold) THEN Ok(R(1))
                 ELSE IF RLe(overbought, value) THEN Ok(R(-1))
                 ELSE IF RLt(value, neutral)
                      THEN IF RSub(neutral, oversold).n = 0 THEN Fail("ZeroDivisionError")
                           ELSE Ok(RDiv(RSub(neutral, value), RSub(neutral, oversold)))
                      ELSE IF RSub(overbought, neutral).n = 0 THEN Fail("ZeroDivisionError")
                           ELSE Ok(RNeg(RDiv(RSub(value, neutral), RSub(overbought, neutral))))

_score_range(result, settings) == Ok(R(0))

\* max(-1.0, min(1.0, x))
Clamp1(x) == IF RLt(x, R(-1)) THEN R(-1) ELSE IF RLt(R(1), x) THEN R(1) ELSE x

\* momentum scoring that divides the OBV change by obv_{t-1} itself
_score_momentum_signedBase(results, target_date, settings) ==
    LET hits == {i \in 1..Len(results) : results[i].date = target_date}
        current_idx == IF hits = {} THEN 0 ELSE CHOOSE i \in hits : \A j \in hits : i <= j
    IN  IF current_idx <= 1 THEN Ok(R(0))
        ELSE LET current == results[current_idx]
                 previous == results[current_idx - 1]
             IN  IF "macd" \in DOMAIN current /\ "signal" \in DOMAIN current
                 THEN IF current.macd = None \/ current.signal = None THEN Ok(R(0))
                      ELSE Ok(Clamp1(RDiv(RSub(current.macd, current.signal),
                                          R(MomentumMacdScale))))
                 ELSE IF "obv" \in DOMAIN current
                 THEN IF current.obv = None \/ previous.obv = None THEN Ok(R(0))
                      ELSE IF previous.obv.n # 0
                      THEN Ok(Clamp1(RMul(RDiv(RSub(current.obv, previous.obv),
                                               previous.obv),
                                          R(MomentumObvScale))))
                      ELSE Ok(R(0))
                 ELSE Ok(R(0))

_score_momentum(results, target_date, settings) ==
    LET hits == {i \in 1..Len(results) : results[i].date = target_date}
        current_idx == IF hits = {} THEN 0 ELSE CHOOSE i \in hits : \A j \in hits : i <= j
    IN  IF current_idx <= 1 THEN Ok(R(0))
        ELSE LET current == results[current_idx]
                 previous == results[current_idx - 1]
             IN  IF "macd" \in DOMAIN current /\ "signal" \in DOMAIN current
                 THEN IF current.macd = None \/ current.signal = None THEN Ok(R(0))
                      ELSE Ok(Clamp1(RDiv(RSub(current.macd, current.signal),
                                          R(MomentumMacdScale))))
                 ELSE IF "obv" \in DOMAIN current
                 THEN IF current.obv = None \/ previous.obv = None THEN Ok(R(0))
                      ELSE IF previous.obv.n # 0
                      THEN Ok(Clamp1(RMul(RDiv(RSub(current.obv, previous.obv),
                                               RAbs(previous.obv)),
                                          R(MomentumObvScale))))
                      ELSE Ok(R(0))
                 ELSE Ok(R(0))

\* The functions a custom_score_function path can name are user code; each
\* stands for one kind of outcome: a raw score above the range, below it,
\* inside it, the record's own number, None, or an exception.
CustomScoreFunctions == {"scores.high", "scores.low", "scores.mid",
                         "scores.raw", "scores.none", "scores.raises"}

_score_custom(result, settings, config) ==
    LET custom_func_path == Get(config, "custom_score_function", NoneStr)
        first == CHOOSE a \in DOMAIN result \ {"date"} : TRUE
    IN  IF custom_func_path = NoneStr THEN Fail("ValueError")
        ELSE IF custom_func_path \notin CustomScoreFunctions THEN Fail("ImportError")
        ELSE CASE custom_func_path = "scores.high" -> Ok(R(5))
               [] custom_func_path = "scores.low" -> Ok(R(-3))
               [] custom_func_path = "scores.mid" -> Ok(Frac(1, 4))
               [] custom_func_path = "scores.raw" -> Ok(result[first])
               [] custom_func_path = "scores.none" -> Ok(None)
               [] OTHER -> Fail("RuntimeError")

_convert_to_score(results, target_date, settings, config) ==
    LET hits == {i \in 1..Len(results) : results[i].date = target_date}
        configured == Get(config, "score_method", "auto")
        score_method == IF configured = "auto"
                        THEN _get_auto_score_method(get_indicator_name[settings.cls])
                        ELSE configured
    IN  IF hits = {} THEN Fail("ValueError")
        ELSE LET result == results[CHOOSE i \in hits : \A j \in hits : j <= i]
             IN  CASE score_method = "threshold" -> _score_threshold(result, settings)
                   [] score_method = "range" -> _score_range(result, settings)
                   [] score_method = "momentum" -> _score_momentum(results, target_date, settings)
                   [] score_method = "custom" -> _score_custom(result, settings, config)
                   [] OTHER -> Fail("ValueError")

StockIndicatorCalculator_calculate(config, date, tickers, bars, lib) ==
    LET ticker_symbol == Get(config, "ticker", DefaultTicker)
        indicator_name == Get(config, "indicator_name", NoneStr)
    IN  IF indicator_name \in {NoneStr, ""} THEN Fail("ValueError")
        ELSE LET settings == _get_settings(config)
             IN  IF ~settings.ok THEN settings
        ELSE LET quotes == _get_quotes(config, ticker_symbol, date, tickers, bars)
             IN  IF ~quotes.ok THEN quotes
        ELSE LET indicator_results ==
                     _calculate_indicator(indicator_name, quotes.value, settings.value, lib)
             IN  IF ~indicator_results.ok THEN indicator_results
        ELSE LET score == _convert_to_score(indicator_results.value, date,
                                            settings.value, config)
             IN  IF ~score.ok THEN score
                 ELSE IF score.value = None THEN Fail("TypeError")
                 ELSE Ok(validate_value(score.value))

\* ---------------------------------------------------- Indicator dispatch
\* An Indicator row is a record of the model fields that dispatch reads.
\* A JSON field that is None or {} is the empty mapping << >> (the code tests
\* it for truth only).
RSIClass == "main.indicators.rsi.RSICalculator"
MAClass == "main.indicators.calculators.MovingAverageTrendCalculator"
VolClass == "main.indicators.calculators.VolatilityCalculator"
SimpleClass == "main.indicators.calculators.SimpleThresholdCalculator"
AdapterClass == "main.indicators.stock_indicator_adapter.StockIndicatorCalculator"
\* an importable class that is no calculator (it has no calculate method)
SettingsClassPath == "main.indicators.settings.RSISettings"

CalculatorClasses == {RSIClass, MAClass, VolClass, SimpleClass, AdapterClass}

\* dict.update
Merge(a, b) == [k \in DOMAIN a \cup DOMAIN b |-> IF k \in DOMAIN b THEN b[k] ELSE a[k]]

\* a calculator instance is [cls, config]; cls = NoneStr is the value None
get_calculator_unknownAsCustom(indicator) ==
    IF indicator.calculation_type = "stock_indicator"
    THEN Ok([cls |-> AdapterClass,
             config |-> Merge([indicator_name |-> indicator.stock_indicator_name,
                               indicator_settings |-> indicator.stock_indicator_settings],
                              indicator.calculator_config)])
    ELSE IF indicator.calculator_class = NoneStr
         THEN Ok([cls |-> SimpleClass, config |-> indicator.calculator_config])
         ELSE Ok([cls |-> indicator.calculator_class,
                  config |-> indicator.calculator_config])

get_calculator(indicator) ==
    IF indicator.calculation_type = "stock_indicator"
    THEN LET config == [indicator_name |-> indicator.stock_indicator_name,
                        indicator_settings |-> indicator.stock_indicator_settings]
             withClass == IF indicator.stock_indicator_settings_class # NoneStr
                          THEN Merge(config, [settings_class |->
                                        indicator.stock_indicator_settings_class])
                          ELSE config
         IN  Ok([cls |-> AdapterClass,
                 config |-> Merge(withClass, indicator.calculator_config)])
    ELSE IF indicator.calculation_type = "custom"
    THEN IF indicator.calculator_class \in {NoneStr, ""}
         THEN Ok([cls |-> NoneStr, config |-> << >>])
         ELSE IF indicator.calculator_class \in CalculatorClasses
         THEN Ok([cls |-> indicator.calculator_class,
                  config |-> indicator.calculator_config])
         ELSE IF indicator.calculator_class = SettingsClassPath
         THEN IF DOMAIN indicator.calculator_config # {}
              THEN Fail("TypeError")
              ELSE Ok([cls |-> SettingsClassPath, config |-> << >>])
         ELSE Fail("ImportError")
    ELSE Fail("ValueError")

\* calculator.calculate(date=date)
Calculate(calculator, date, tickers, bars, lib) ==
    CASE calculator.cls = RSIClass ->
           RSICalculator_calculate(calculator.config, date, tickers, bars)
      [] calculator.cls = MAClass ->
           MovingAverageTrendCalculator_calculate(calculator.config, date, tickers, bars)
      [] calculator.cls = VolClass ->
           VolatilityCalculator_calculate(calculator.config, date, tickers, bars)
      [] calculator.cls = SimpleClass ->
           SimpleThresholdCalculator_calculate(calculator.config, date)
      [] OTHER ->
           StockIndicatorCalculator_calculate(calculator.config, date, tickers, bars, lib)

calculate_value(indicator, date, tickers, bars, lib) ==
    LET calculator == get_calculator(indicator)
    IN  IF ~calculator.ok THEN calculator
        ELSE IF calculator.value.cls = NoneStr THEN Fail("ValueError")
        ELSE IF calculator.value.cls \notin CalculatorClasses THEN Fail("AttributeError")
        ELSE Calculate(calculator.value, date, tickers, bars, lib)

\* ================================================================ state
VARIABLES
    tickers,      \* Ticker table: the known ticker symbols
    bars,         \* TickerData of DefaultTicker: date -> close, where a row exists
    lib,          \* what the external library computes (see LibRecord)
    indicators,   \* Indicator table: sequence of rows, the id is the index
    rows,         \* IndicatorData table: set of [id, indicator, date, value]
    wk,           \* per caller of calculate_indicator_for_date_range: its locals
    out           \* what the last calculate_value / summary call returned

vars == <<tickers, bars, lib, indicators, rows, wk, out>>

\* ------------------------------------------------- IndicatorData table
Matching(rs, ind, date) == {r \in rs : r.indicator = ind /\ r.date = date}

\* the AutoField id of a new row (any unused id; the least, to stay finite)
FreeId(rs) == CHOOSE i \in 1..(Cardinality(rs) + 1) :
                  /\ \A r \in rs : r.id # i
                  /\ \A j \in 1..(i - 1) : \E r \in rs : r.id = j

\* unique_together = [['indicator', 'date']]: an INSERT of the key is refused
UniqueViolation_off(rs, ind, date) == FALSE

UniqueViolation(rs, ind, date) == Matching(rs, ind, date) # {}

InsertRow(rs, ind, date, value) ==
    rs \cup {[id |-> FreeId(rs), indicator |-> ind, date |-> date, value |-> value]}

\* obj.value = value; obj.save()
SetValue_insert(rs, r, value) ==
    rs \cup {[id |-> FreeId(rs), indicator |-> r.indicator, date |-> r.date,
              value |-> value]}

SetValue(rs, r, value) == (rs \ {r}) \cup {[r EXCEPT !.value = value]}

\* ------------------------------------ calculate_indicator_for_date_range
IdleWorker == [pc |-> "idle", ind |-> 0, start |-> 0, end |-> 0, cur |-> 0,
               save |-> FALSE, value |-> None, results |-> << >>, visited |-> << >>]

\* current_date += timedelta(days=1), back at the loop test
NextDate(w) == [w EXCEPT !.cur = @ + 1, !.pc = "loop", !.value = None]

\* except Exception: pass -- what the failure of a date does to the table
AfterFailure_dropRow(rs, ind, date) == rs \ Matching(rs, ind, date)

AfterFailure(rs, ind, date) == rs

\* except Exception: pass -- the date is dropped and the loop goes on
OnError_abort(w) == [w EXCEPT !.pc = "done", !.value = None]

OnError(w) == NextDate(w)

StartRange(w, i, s, e, save) ==
    /\ wk[w].pc = "idle"
    /\ wk' = [wk EXCEPT ![w] = [pc |-> "loop", ind |-> i, start |-> s, end |-> e,
                                cur |-> s, save |-> save, value |-> None,
                                results |-> << >>, visited |-> << >>]]
    /\ UNCHANGED <<tickers, bars, lib, indicators, rows, out>>

\* one pass of the try block up to the database call
CalcDate(w) ==
    /\ wk[w].pc = "loop"
    /\ wk[w].cur <= wk[w].end
    /\ LET me == [wk[w] EXCEPT !.visited = Append(@, wk[w].cur)]
           res == calculate_value(indicators[me.ind], me.cur, tickers, bars, lib)
       IN  IF res.ok
           THEN LET got == [me EXCEPT !.results =
                               Append(@, [date |-> me.cur, value |-> res.value])]
                IN  /\ IF me.save
                       THEN wk' = [wk EXCEPT ![w] = [got EXCEPT !.pc = "get",
                                                                !.value = res.value]]
                       ELSE wk' = [wk EXCEPT ![w] = NextDate(got)]
                    /\ UNCHANGED rows
           ELSE /\ wk' = [wk EXCEPT ![w] = OnError(me)]
                /\ rows' = AfterFailure(rows, me.ind, me.cur)
    /\ UNCHANGED <<tickers, bars, lib, indicators, out>>

\* update_or_create, first statement: SELECT ... FOR UPDATE of the key; a row
\* found is updated and saved under its lock
UpsertGet(w) ==
    /\ wk[w].pc = "get"
    /\ LET m == Matching(rows, wk[w].ind, wk[w].cur)
       IN  IF Cardinality(m) = 1
           THEN /\ rows' = SetValue(rows, CHOOSE r \in m : TRUE, wk[w].value)
                /\ wk' = [wk EXCEPT ![w] = NextDate(wk[w])]
           ELSE IF m = {}
           THEN /\ wk' = [wk EXCEPT ![w].pc = "create"]
                /\ UNCHANGED rows
           ELSE /\ wk' = [wk EXCEPT ![w] = OnError(wk[w])]
                /\ rows' = AfterFailure(rows, wk[w].ind, wk[w].cur)
    /\ UNCHANGED <<tickers, bars, lib, indicators, out>>

\* update_or_create, no row found: INSERT; IntegrityError leads to a second get
UpsertCreate(w) ==
    /\ wk[w].pc = "create"
    /\ IF UniqueViolation(rows, wk[w].ind, wk[w].cur)
       THEN /\ wk' = [wk EXCEPT ![w].pc = "reget"]
            /\ UNCHANGED rows
       ELSE /\ rows' = InsertRow(rows, wk[w].ind, wk[w].cur, wk[w].value)
            /\ wk' = [wk EXCEPT ![w] = NextDate(wk[w])]
    /\ UNCHANGED <<tickers, bars, lib, indicators, out>>

\* update_or_create after IntegrityError: get the row that won and update it;
\* no row (or several) raises, and the caller's except clause drops the date
UpsertReget(w) ==
    /\ wk[w].pc = "reget"
    /\ LET m == Matching(rows, wk[w].ind, wk[w].cur)
       IN  IF Cardinality(m) = 1
           THEN /\ rows' = SetValue(rows, CHOOSE r \in m : TRUE, wk[w].value)
                /\ wk' = [wk EXCEPT ![w] = NextDate(wk[w])]
           ELSE /\ wk' = [wk EXCEPT ![w] = OnError(wk[w])]
                /\ rows' = AfterFailure(rows, wk[w].ind, wk[w].cur)
    /\ UNCHANGED <<tickers, bars, lib, indicators, out>>

\* the loop test fails: return results
Finish(w) ==
    /\ wk[w].pc = "loop"
    /\ wk[w].cur > wk[w].end
    /\ wk' = [wk EXCEPT ![w].pc = "done"]
    /\ UNCHANGED <<tickers, bars, lib, indicators, rows, out>>

\* ------------------------------------------------------------ Spec
\* the date ranges a caller asks for: all days, the last day, an empty range
Ranges == {<<1, MaxDate>>, <<MaxDate, MaxDate>>, <<MaxDate, 1>>}

BarsChoices == UNION {[D -> Closes] : D \in SUBSET Dates}

\* price histories with gaps: flat at 1, or alternating between 2 and 1
GappedBars ==
    {[d \in D |-> IF flat THEN 1 ELSE 1 + (d % 2)] : D \in SUBSET Dates, flat \in BOOLEAN}

\* the record of date d is null during the first k days (warm-up)
LibWarm(k, raises) ==
    [raises |-> raises,
     v |-> [d \in Dates |-> IF d <= k THEN None ELSE R(40)],
     w |-> [d \in Dates |-> IF d <= k THEN None ELSE R(0)]]

RsiIndicator ==
    [calculation_type |-> "custom", calculator_class |-> RSIClass,
     calculator_config |-> [ticker |-> DefaultTicker, period |-> 1,
                            oversold_threshold |-> R(30),
                            overbought_threshold |-> R(70)],
     stock_indicator_name |-> NoneStr, stock_indicator_settings_class |-> NoneStr,
     stock_indicator_settings |-> << >>, auto_update |-> TRUE]

AdapterIndicator ==
    [calculation_type |-> "stock_indicator", calculator_class |-> NoneStr,
     calculator_config |-> [ticker |-> DefaultTicker, score_method |-> "threshold"],
     stock_indicator_name |-> "rsi", stock_indicator_settings_class |-> NoneStr,
     stock_indicator_settings |-> [lookback_periods |-> R(1)], auto_update |-> TRUE]

Init ==
    /\ tickers = {DefaultTicker}
    /\ \/ /\ indicators = <<RsiIndicator>>
          /\ bars \in GappedBars
          /\ lib = LibWarm(0, FALSE)
       \/ /\ indicators = <<AdapterIndicator>>
          /\ bars \in {[d \in D |-> 1] : D \in SUBSET Dates}
          /\ lib \in {LibWarm(0, FALSE), LibWarm(1, FALSE), LibWarm(0, TRUE)}
    /\ rows = {}
    /\ wk = [w \in Workers |-> IdleWorker]
    /\ out = [op |-> "none"]

Next ==
    \/ \E w \in Workers, i \in 1..Len(indicators), r \in Ranges, save \in BOOLEAN :
           StartRange(w, i, r[1], r[2], save)
    \/ \E w \in Workers : CalcDate(w)
    \/ \E w \in Workers : UpsertGet(w)
    \/ \E w \in Workers : UpsertCreate(w)
    \/ \E w \in Workers : UpsertReget(w)
    \/ \E w \in Workers : Finish(w)

Spec == Init /\ [][Next]_vars

\* the steps of one call
Run(w) == CalcDate(w) \/ UpsertGet(w) \/ UpsertCreate(w) \/ UpsertReget(w) \/ Finish(w)

\* ============================================================== claims
NoDuplicateKey(rs) ==
    \A r1, r2 \in rs : (r1.indicator = r2.indicator /\ r1.date = r2.date) => r1 = r2

InUpsert(w) == wk[w].pc \in {"get", "create", "reget"}

\* the dates s..e in ascending order
DateSeq(s, e) == [i \in 1..Max(e - s + 1, 0) |-> s + i - 1]

\* the {date, value} entries of the dates of s..e whose calculation succeeds
RECURSIVE Successes(_, _, _)
Successes(ind, s, e) ==
    IF e < s THEN << >>
    ELSE LET res == calculate_value(indicators[ind], e, tickers, bars, lib)
         IN  IF res.ok
             THEN Append(Successes(ind, s, e - 1), [date |-> e, value |-> res.value])
             ELSE Successes(ind, s, e - 1)

\* C2: a range run over dates that already have their rows (a second run over
\* the same indicator, range and price data) changes nothing in the table: it
\* adds no row and rewrites each row with the value it holds; and every date
\* a finished saving run computed has exactly one row, holding that value.
C2_SecondRunIdempotent ==
    [][ /\ \A w \in Workers :
              (InUpsert(w) /\ wk'[w] # wk[w]
                 /\ Matching(rows, wk[w].ind, wk[w].cur) # {}) => rows' = rows
        /\ \A w \in Workers :
              (wk'[w].pc = "done" /\ wk'[w].save) =>
                 \A k \in 1..Len(wk'[w].results) :
                    LET e == wk'[w].results[k]
                        m == Matching(rows', wk'[w].ind, e.date)
                    IN  Cardinality(m) = 1 /\ \A r \in m : r.value = e.value
      ]_vars

C2_Witness ==
    /\ \A w \in Workers : wk[w].pc = "done" /\ wk[w].save
    /\ \A w \in Workers : wk[w].start = 1 /\ wk[w].end = MaxDate
    /\ Len(wk[1].results) >= 2
    /\ Cardinality(rows) = Len(wk[1].results)

\* C3: a range run visits the dates start..end once each in ascending order
\* and then returns; a date that fails does not stop the later ones, and the
\* returned list holds exactly the dates that succeeded, in order.  It
\* returns because every step of a run lowers Remaining, and a run that has
\* not returned always has a step to take.
C3_Inv ==
    \A w \in Workers :
        /\ wk[w].pc # "idle" =>
              /\ Len(wk[w].visited) <= Len(DateSeq(wk[w].start, wk[w].end))
              /\ wk[w].visited = SubSeq(DateSeq(wk[w].start, wk[w].end), 1,
                                        Len(wk[w].visited))
        /\ wk[w].pc = "done" =>
              /\ wk[w].visited = DateSeq(wk[w].start, wk[w].end)
              /\ wk[w].results = Successes(wk[w].ind, wk[w].start, wk[w].end)

\* what is left of a run: the dates still to visit, then the statements
\* still to execute for the current date
Remaining(w) ==
    LET left == Max(wk[w].end + 1 - wk[w].cur, 0)
        rank == CASE wk[w].pc = "loop" -> 4
                  [] wk[w].pc = "get" -> 3
                  [] wk[w].pc = "create" -> 2
                  [] wk[w].pc = "reget" -> 1
                  [] OTHER -> 0
    IN  IF wk[w].pc \in {"idle", "done"} THEN 0 ELSE 4 * left + rank

\* the guards of CalcDate, Finish, UpsertGet, UpsertCreate and UpsertReget
CanStep(w) ==
    \/ wk[w].pc = "loop" /\ wk[w].cur <= wk[w].end
    \/ wk[w].pc = "loop" /\ wk[w].cur > wk[w].end
    \/ wk[w].pc = "get"
    \/ wk[w].pc = "create"
    \/ wk[w].pc = "reget"

C3_VisitsEveryDateAndReturns ==
    /\ []C3_Inv
    /\ [][ \A w \in Workers :
              /\ (wk[w].pc \notin {"idle", "done"} /\ wk'[w] # wk[w]) =>
                     Remaining(w)' < Remaining(w)
              /\ wk'[w].pc \notin {"idle", "done"} => CanStep(w)'
         ]_vars

C3_Witness ==
    \E w \in Workers :
        /\ wk[w].pc = "done"
        /\ Len(wk[w].visited) = MaxDate
        /\ Len(wk[w].results) = 1
        /\ wk[w].results[1].date = MaxDate

\* C5: two range runs of one indicator over overlapping dates: whenever an
\* upsert completes, the key has exactly one row and it holds the value this
\* writer wrote; no upsert ends in an error, and no key ever has two rows.
C5_ConcurrentUpsertsSafe ==
    [][ /\ NoDuplicateKey(rows')
        /\ \A w \in Workers :
              (InUpsert(w) /\ ~InUpsert(w)') =>
                 /\ wk'[w].pc = "loop"
                 /\ \E r \in rows' : /\ r.indicator = wk[w].ind
                                     /\ r.date = wk[w].cur
                                     /\ r.value = wk[w].value
      ]_vars

C5_Witness ==
    \E w \in Workers : wk[w].pc = "reget" /\ Cardinality(rows) >= 1

\* C7: a row for (indicator, D) exists only if the lookback ending at D was
\* available: for RSICalculator at least period + 1 bars of which the latest
\* is dated D, for the adapter a fetch holding a bar dated D.
LookbackEndingAt(indicator, D) ==
    IF indicator.calculation_type = "custom"
    THEN LET period == Get(indicator.calculator_config, "period", RsiDefaultPeriod)
         IN  /\ D \in DOMAIN bars
             /\ Len(QueryDates(bars, D - (period + RsiExtraDays), D)) >= period + 1
    ELSE D \in DOMAIN bars

C7_RowOnlyWithLookbackEndingAtDate ==
    \A r \in rows : LookbackEndingAt(indicators[r.indicator], r.date)

\* ============================================= calculate_value on its own
\* Indicator rows as the model fields hold them
CustomInd(cls, config) ==
    [calculation_type |-> "custom", calculator_class |-> cls,
     calculator_config |-> config,
     stock_indicator_name |-> NoneStr, stock_indicator_settings_class |-> NoneStr,
     stock_indicator_settings |-> << >>, auto_update |-> TRUE]

StockInd(name, settings_class, settings, config) ==
    [calculation_type |-> "stock_indicator", calculator_class |-> NoneStr,
     calculator_config |-> config,
     stock_indicator_name |-> name, stock_indicator_settings_class |-> settings_class,
     stock_indicator_settings |-> settings, auto_update |-> TRUE]

\* custom calculators, well configured and not
CustomIndicators ==
    << RsiIndicator,
       CustomInd(RSIClass, << >>),
       CustomInd(RSIClass, [period |-> 2, oversold_threshold |-> R(50),
                            overbought_threshold |-> R(50)]),
       CustomInd(RSIClass, [period |-> 2]),
       CustomInd(RSIClass, [period |-> 0]),
       CustomInd(RSIClass, [ticker |-> "X:ETHUSD", period |-> 1]),
       CustomInd(MAClass, [short_period |-> 1, long_period |-> 2]),
       CustomInd(MAClass, [short_period |-> 0, long_period |-> 1]),
       CustomInd(VolClass, [period |-> 2, threshold |-> R(5)]),
       CustomInd(VolClass, [period |-> 2, threshold |-> R(100)]),
       CustomInd(VolClass, [period |-> 1, threshold |-> R(0)]),
       CustomInd(SimpleClass, << >>),
       CustomInd(SimpleClass, [threshold |-> R(3)]),
       CustomInd(SimpleClass, [threshold |-> R(-2)]),
       CustomInd(NoneStr, << >>),
       CustomInd("", [period |-> 1]),
       CustomInd(SettingsClassPath, << >>),
       CustomInd(SettingsClassPath, [period |-> 1]),
       CustomInd("main.indicators.missing.Calculator", << >>),
       [CustomInd(RSIClass, [period |-> 1]) EXCEPT !.calculation_type = "manual"] >>

\* adapter indicators: every scoring strategy, every custom function
StockIndicators ==
    << AdapterIndicator,
       StockInd("rsi", NoneStr, << >>, [ticker |-> DefaultTicker]),
       StockInd("rsi", "RSISettings",
                [oversold_threshold |-> R(40), overbought_threshold |-> R(40)],
                << >>),
       StockInd("cci", NoneStr, << >>, [lookback_days |-> 1]),
       StockInd("macd", NoneStr, << >>, << >>),
       StockInd("obv", NoneStr, << >>, [score_method |-> "momentum"]),
       StockInd("sma", NoneStr, << >>, [score_method |-> "auto"]),
       StockInd("sma", NoneStr, << >>, [score_method |-> "threshold"]),
       StockInd("rsi", NoneStr, << >>, [score_method |-> "range"]),
       StockInd("rsi", NoneStr, << >>, [score_method |-> "zscore"]),
       StockInd("stoch", NoneStr, << >>, << >>),
       StockInd("stochastic", NoneStr, << >>, << >>),
       StockInd("stoch", "StochasticSettings", << >>, << >>),
       StockInd(NoneStr, NoneStr, << >>, << >>),
       StockInd("rsi", "main.indicators.missing.Settings", << >>, << >>),
       StockInd("rsi", NoneStr, << >>, [ticker |-> "X:ETHUSD"]),
       StockInd("rsi", NoneStr, << >>, [score_method |-> "custom"]),
       StockInd("rsi", NoneStr, << >>,
                [score_method |-> "custom", custom_score_function |-> "scores.high"]),
       StockInd("rsi", NoneStr, << >>,
                [score_method |-> "custom", custom_score_function |-> "scores.low"]),
       StockInd("rsi", NoneStr, << >>,
                [score_method |-> "custom", custom_score_function |-> "scores.mid"]),
       StockInd("macd", NoneStr, << >>,
                [score_method |-> "custom", custom_score_function |-> "scores.raw"]),
       StockInd("rsi", NoneStr, << >>,
                [score_method |-> "custom", custom_score_function |-> "scores.none"]),
       StockInd("rsi", NoneStr, << >>,
                [score_method |-> "custom", custom_score_function |-> "scores.raises"]),
       StockInd("rsi", NoneStr, << >>,
                [score_method |-> "custom", custom_score_function |-> "scores.missing"]) >>

\* a library whose numbers move from day to day, below and above zero
LibTrend ==
    [raises |-> FALSE,
     v |-> [d \in Dates |-> R(6 * d - 9)],
     w |-> [d \in Dates |-> R(d - 3)]]

CalcLibs == <<LibWarm(0, FALSE), LibWarm(1, FALSE), LibWarm(0, TRUE), LibTrend>>

FlatBars == {[d \in D |-> 1] : D \in SUBSET Dates}

InitCalc ==
    /\ tickers = {DefaultTicker}
    /\ \/ /\ \E k \in 1..Len(CustomIndicators) : indicators = <<CustomIndicators[k]>>
          /\ bars \in BarsChoices
          /\ lib = LibWarm(0, FALSE)
       \/ /\ \E k \in 1..Len(StockIndicators) : indicators = <<StockIndicators[k]>>
          /\ bars \in FlatBars
          /\ \E k \in 1..Len(CalcLibs) : lib = CalcLibs[k]
    /\ rows = {}
    /\ wk = [w \in Workers |-> IdleWorker]
    /\ out = [op |-> "none"]

\* indicator.calculate_value(date=date); the caller keeps what it returned
CalculateValue(i, date) ==
    /\ out' = [op |-> "calculate_value", ind |-> i, date |-> date,
               res |-> calculate_value(indicators[i], date, tickers, bars, lib)]
    /\ UNCHANGED <<tickers, bars, lib, indicators, rows, wk>>

NextCalc == \E i \in 1..Len(indicators), date \in Dates : CalculateValue(i, date)

SpecCalc == InitCalc /\ [][NextCalc]_vars

\* C1: whatever calculate(date) of a concrete calculator returns lies in
\* [-1, 1], for the four custom calculators and for the adapter under every
\* scoring strategy, the custom one included.
C1_ScoreInRange ==
    (out.op = "calculate_value" /\ out.res.ok) =>
        /\ out.res.value # None
        /\ RLe(R(-1), out.res.value)
        /\ RLe(out.res.value, R(1))

\* a custom score function returned 5 and calculate returned 1
C1_Witness ==
    /\ out.op = "calculate_value"
    /\ indicators[out.ind].calculation_type = "stock_indicator"
    /\ Get(indicators[out.ind].calculator_config, "custom_score_function", NoneStr)
          = "scores.high"
    /\ out.res.ok
    /\ out.res.value = R(1)

\* C8: calculate_value takes the branch of calculation_type.  'custom' with a
\* calculator class returns what that class, built with calculator_config,
\* calculates for the date; 'stock_indicator' returns what the adapter built
\* from {indicator_name, indicator_settings, optional settings_class} and
\* calculator_config calculates; a custom indicator without a class and an
\* unknown calculation_type fail with ValueError, a class without a calculate
\* method fails, and a failure returns no score.
C8_Expected(ind, date) ==
    IF ind.calculation_type = "stock_indicator"
    THEN LET base == [indicator_name |-> ind.stock_indicator_name,
                      indicator_settings |-> ind.stock_indicator_settings]
             cls == IF ind.stock_indicator_settings_class = NoneStr THEN << >>
                    ELSE [settings_class |-> ind.stock_indicator_settings_class]
         IN  StockIndicatorCalculator_calculate(
                 Merge(Merge(base, cls), ind.calculator_config),
                 date, tickers, bars, lib)
    ELSE CASE ind.calculator_class = RSIClass ->
                RSICalculator_calculate(ind.calculator_config, date, tickers, bars)
           [] ind.calculator_class = MAClass ->
                MovingAverageTrendCalculator_calculate(ind.calculator_config, date,
                                                       tickers, bars)
           [] ind.calculator_class = VolClass ->
                VolatilityCalculator_calculate(ind.calculator_config, date, tickers, bars)
           [] OTHER ->
                SimpleThresholdCalculator_calculate(ind.calculator_config, date)

C8_DispatchByCalculationType ==
    out.op = "calculate_value" =>
        LET ind == indicators[out.ind]
            known == ind.calculation_type \in {"custom", "stock_indicator"}
            noClass == ind.calculation_type = "custom"
                          /\ ind.calculator_class \in {NoneStr, ""}
            calculator == ind.calculation_type = "stock_indicator"
                             \/ (ind.calculation_type = "custom"
                                   /\ ind.calculator_class \in CalculatorClasses)
        IN  /\ calculator => out.res = C8_Expected(ind, out.date)
            /\ (~known \/ noClass) => (~out.res.ok /\ out.res.err = "ValueError")
            /\ (known /\ ~noClass /\ ~calculator) => ~out.res.ok
            /\ ~out.res.ok => out.res.value = None

\* each branch has run: a custom class, the adapter, and the three failures
C8_Witness ==
    /\ out.op = "calculate_value"
    /\ indicators[out.ind].calculation_type = "custom"
    /\ indicators[out.ind].calculator_class = SettingsClassPath
    /\ DOMAIN indicators[out.ind].calculator_config = {}
    /\ out.res.err = "AttributeError"

\* ======================================================== score summary
MaxIndicators == 3     \* rows of the Indicator table in the summary runs

OtherTicker == "X:ETHUSD"

\* the bands with -0.2 itself outside Neutral
_score_to_sentiment_openNeutral(score) ==
    IF RLe(Frac(6, 10), score) THEN "Very Bullish"
    ELSE IF RLe(Frac(2, 10), score) THEN "Bullish"
    ELSE IF RLt(Frac(-2, 10), score) THEN "Neutral"
    ELSE IF RLe(Frac(-6, 10), score) THEN "Bearish"
    ELSE "Very Bearish"

_score_to_sentiment(score) ==
    IF RLe(Frac(6, 10), score) THEN "Very Bullish"
    ELSE IF RLe(Frac(2, 10), score) THEN "Bullish"
    ELSE IF RLe(Frac(-2, 10), score) THEN "Neutral"
    ELSE IF RLe(Frac(-6, 10), score) THEN "Bearish"
    ELSE "Very Bearish"

\* Indicator.objects.filter(calculation_type='stock_indicator',
\*                          calculator_config__ticker=ticker), as ids
SummaryQuery(ticker) ==
    SelectSeq([i \in 1..Len(indicators) |-> i],
              LAMBDA i : /\ indicators[i].calculation_type = "stock_indicator"
                         /\ "ticker" \in DOMAIN indicators[i].calculator_config
                         /\ indicators[i].calculator_config.ticker = ticker)

\* except Exception: pass -- neither list gets an entry
SkipFailed_asZero(acc) == [acc EXCEPT !.scores = Append(@, R(0))]

SkipFailed(acc) == acc

\* the for loop over the query; acc holds scores and indicator_details
RECURSIVE SummaryLoop(_, _, _, _)
SummaryLoop(query, k, target_date, acc) ==
    IF k > Len(query) THEN acc
    ELSE LET i == query[k]
             score == calculate_value(indicators[i], target_date, tickers, bars, lib)
         IN  SummaryLoop(query, k + 1, target_date,
                IF score.ok
                THEN [scores |-> Append(acc.scores, score.value),
                      details |-> Append(acc.details,
                          [title |-> i,
                           indicator_name |-> indicators[i].stock_indicator_name,
                           score |-> score.value,
                           sentiment |-> _score_to_sentiment(score.value)])]
                ELSE SkipFailed(acc))

RECURSIVE RSum(_)
RSum(s) == IF s = << >> THEN R(0) ELSE RAdd(Head(s), RSum(Tail(s)))

\* the summary with the counts cut at the sentiment band 0.2
SummaryOf_sentimentCutoff(ticker, target_date, scores, details) ==
    LET overall_score == IF scores # << >> THEN RDiv(RSum(scores), R(Len(scores)))
                         ELSE R(0)
    IN  [ticker |-> ticker,
         date |-> target_date,
         overall_score |-> overall_score,
         overall_sentiment |-> _score_to_sentiment(overall_score),
         indicator_count |-> Len(scores),
         indicators |-> details,
         bullish_count |-> Len(SelectSeq(scores, LAMBDA x : RLt(Frac(2, 10), x))),
         bearish_count |-> Len(SelectSeq(scores, LAMBDA x : RLt(x, Frac(-2, 10)))),
         neutral_count |-> Len(SelectSeq(scores, LAMBDA x : RLe(Frac(-2, 10), x)
                                                             /\ RLe(x, Frac(2, 10))))]

\* the statements after the loop, from the two lists the loop has filled
SummaryOf(ticker, target_date, scores, details) ==
    LET overall_score == IF scores # << >> THEN RDiv(RSum(scores), R(Len(scores)))
                         ELSE R(0)
    IN  [ticker |-> ticker,
         date |-> target_date,
         overall_score |-> overall_score,
         overall_sentiment |-> _score_to_sentiment(overall_score),
         indicator_count |-> Len(scores),
         indicators |-> details,
         bullish_count |-> Len(SelectSeq(scores, LAMBDA x : RLt(Frac(3, 10), x))),
         bearish_count |-> Len(SelectSeq(scores, LAMBDA x : RLt(x, Frac(-3, 10)))),
         neutral_count |-> Len(SelectSeq(scores, LAMBDA x : RLe(Frac(-3, 10), x)
                                                             /\ RLe(x, Frac(3, 10))))]

\* the loop runs once; acc is what it leaves in scores and indicator_details
get_indicator_score_summary(ticker, target_date) ==
    CHOOSE sm \in {SummaryOf(ticker, target_date, acc.scores, acc.details) :
                     acc \in {SummaryLoop(SummaryQuery(ticker), 1, target_date,
                                          [scores |-> << >>, details |-> << >>])}} :
        TRUE

CustomScore(fn, ticker) ==
    StockInd("rsi", NoneStr, << >>,
             [ticker |-> ticker, score_method |-> "custom",
              custom_score_function |-> fn])

\* the indicators a summary run may find in the table
SummaryIndicators ==
    << AdapterIndicator,
       CustomScore("scores.high", DefaultTicker),
       CustomScore("scores.low", DefaultTicker),
       CustomScore("scores.mid", DefaultTicker),
       StockInd("stoch", NoneStr, << >>, [ticker |-> DefaultTicker]),
       StockInd("rsi", NoneStr, << >>, [ticker |-> OtherTicker]),
       StockInd("rsi", NoneStr, << >>, [score_method |-> "threshold"]),
       RsiIndicator >>

\* an adapter RSI indicator of the default ticker with its own thresholds
Banded(oversold, overbought) ==
    StockInd("rsi", NoneStr,
             [oversold_threshold |-> R(oversold), overbought_threshold |-> R(overbought)],
             [ticker |-> DefaultTicker])

\* thresholds under which the library's RSI of 40 scores 0.8, -0.5, 0.1, 0.3
\* and -0.3
BandIndicators ==
    << Banded(30, 130), Banded(10, 50), Banded(31, 51), Banded(33, 53),
       Banded(27, 47) >>

InitSummary ==
    /\ tickers = {DefaultTicker}
    /\ bars = [d \in Dates |-> 1]
    /\ lib = LibWarm(1, FALSE)
    /\ \E n \in 0..MaxIndicators :
          \/ \E f \in [1..n -> 1..Len(SummaryIndicators)] :
                indicators = [i \in 1..n |-> SummaryIndicators[f[i]]]
          \/ \E f \in [1..n -> 1..Len(BandIndicators)] :
                indicators = [i \in 1..n |-> BandIndicators[f[i]]]
    /\ rows = {}
    /\ wk = [w \in Workers |-> IdleWorker]
    /\ out = [op |-> "none"]

GetSummary(ticker, target_date) ==
    /\ out' = [op |-> "summary",
               summary |-> get_indicator_score_summary(ticker, target_date)]
    /\ UNCHANGED <<tickers, bars, lib, indicators, rows, wk>>

NextSummary ==
    \E ticker \in {DefaultTicker, OtherTicker}, target_date \in Dates :
        GetSummary(ticker, target_date)

SpecSummary == InitSummary /\ [][NextSummary]_vars

\* the stock_indicator rows of the ticker whose calculation succeeds
Scored(ticker, date) ==
    {i \in 1..Len(indicators) :
        /\ indicators[i].calculation_type = "stock_indicator"
        /\ Get(indicators[i].calculator_config, "ticker", NoneStr) = ticker
        /\ calculate_value(indicators[i], date, tickers, bars, lib).ok}

RECURSIVE SumScores(_, _)
SumScores(S, date) ==
    IF S = {} THEN R(0)
    ELSE LET i == CHOOSE x \in S : TRUE
         IN  RAdd(calculate_value(indicators[i], date, tickers, bars, lib).value,
                  SumScores(S \ {i}, date))

\* C9: overall_score is the mean of the scores of exactly the indicators whose
\* calculate_value succeeded; a failed indicator is in neither the mean, nor
\* indicator_count, nor the indicators list, and indicator_count is the length
\* of that list.
C9_MeanOverSuccessesOnly ==
    out.op = "summary" =>
        LET sm == out.summary
            S == Scored(sm.ticker, sm.date)
        IN  /\ sm.indicator_count = Cardinality(S)
            /\ sm.indicator_count = Len(sm.indicators)
            /\ {sm.indicators[k].title : k \in 1..Len(sm.indicators)} = S
            /\ \A k \in 1..Len(sm.indicators) :
                  sm.indicators[k].score =
                      calculate_value(indicators[sm.indicators[k].title], sm.date,
                                      tickers, bars, lib).value
            /\ S # {} => sm.overall_score =
                            RDiv(SumScores(S, sm.date), R(Cardinality(S)))
            /\ sm.bullish_count + sm.bearish_count + sm.neutral_count
                  = sm.indicator_count

\* two indicators scored 1 and 1/4, a third one failed: the mean is 5/8
C9_Witness ==
    /\ out.op = "summary"
    /\ Len(SummaryQuery(out.summary.ticker)) = 3
    /\ out.summary.indicator_count = 2
    /\ out.summary.overall_score = Frac(5, 8)

\* C10: when no indicator of the ticker yields a score on the date (none
\* configured, or all fail), the summary does not report an overall_score of
\* 0.0 with the sentiment of a computed 0.0.
C10_NoScoreIsNotZero ==
    (out.op = "summary" /\ out.summary.indicator_count = 0) =>
        ~(out.summary.overall_score = R(0)
            /\ out.summary.overall_sentiment = _score_to_sentiment(R(0)))

\* ===================================== the other writers of IndicatorData
\* value < -1.0 or value > 1.0
OutOfRange(value) == RLt(value, R(-1)) \/ RLt(R(1), value)

\* queryset.first() under Meta.ordering = ['date']: one date, the oldest row
First(m) == CHOOSE r \in m : \A q \in m : r.id <= q.id

\* IndicatorData.objects.create(...); IntegrityError is caught by the caller's
\* except Exception and the table stays as it was
TryCreate(rs, ind, date, value) ==
    IF UniqueViolation(rs, ind, date) THEN rs ELSE InsertRow(rs, ind, date, value)

\* ---- management command update_indicators --date D [--force] [--indicator-id N]
CmdSkip_never(existing, force) == FALSE

\* if existing and not options['force']: continue
CmdSkip(existing, force) == existing # {} /\ ~force

\* Indicator.objects.filter(auto_update=True).exclude(calculator_class__isnull=True)
\* and, with --indicator-id (0: not given), .filter(id=N)
UpdateQuery(indicator_id) ==
    SelectSeq([i \in 1..Len(indicators) |-> i],
              LAMBDA i : /\ indicators[i].auto_update
                         /\ indicators[i].calculator_class # NoneStr
                         /\ (indicator_id # 0 => i = indicator_id))

RECURSIVE UpdateLoop(_, _, _, _, _)
UpdateLoop(rs, query, k, target_date, force) ==
    IF k > Len(query) THEN rs
    ELSE LET i == query[k]
             existing == Matching(rs, i, target_date)
             value == calculate_value(indicators[i], target_date, tickers, bars, lib)
             after == IF CmdSkip(existing, force) THEN rs
                      ELSE IF ~value.ok THEN rs
                      ELSE IF existing # {}
                           THEN SetValue(rs, First(existing), value.value)
                           ELSE TryCreate(rs, i, target_date, value.value)
         IN  UpdateLoop(after, query, k + 1, target_date, force)

update_indicators(target_date, force, indicator_id) ==
    /\ rows' = UpdateLoop(rows, UpdateQuery(indicator_id), 1, target_date, force)
    /\ UNCHANGED <<tickers, bars, lib, indicators, wk, out>>

\* ---- views
\* messages.warning('Data point ... already exists. Use edit to update it.')
AddOnExisting_overwrite(rs, ind, date, value) ==
    SetValue(rs, First(Matching(rs, ind, date)), value)

AddOnExisting(rs, ind, date, value) == rs

indicator_data_add(indicator_id, date, value) ==
    /\ rows' = IF OutOfRange(value) THEN rows
               ELSE IF Matching(rows, indicator_id, date) # {}
                    THEN AddOnExisting(rows, indicator_id, date, value)
                    ELSE TryCreate(rows, indicator_id, date, value)
    /\ UNCHANGED <<tickers, bars, lib, indicators, wk, out>>

\* data_point is the row of the URL's data_id
indicator_data_edit(indicator_id, data_point, date, value) ==
    /\ data_point \in rows
    /\ data_point.indicator = indicator_id
    /\ rows' = IF OutOfRange(value) THEN rows
               ELSE IF Matching(rows, indicator_id, date) \ {data_point} # {}
                    THEN rows
                    ELSE (rows \ {data_point})
                            \cup {[data_point EXCEPT !.date = date, !.value = value]}
    /\ UNCHANGED <<tickers, bars, lib, indicators, wk, out>>

indicator_data_delete(indicator_id, data_point) ==
    /\ data_point \in rows
    /\ data_point.indicator = indicator_id
    /\ rows' = rows \ {data_point}
    /\ UNCHANGED <<tickers, bars, lib, indicators, wk, out>>

\* values[i] is the form field value_<i>; None is the empty field
RECURSIVE BulkLoop(_, _, _, _)
BulkLoop(rs, k, date, values) ==
    IF k > Len(indicators) THEN rs
    ELSE LET existing == Matching(rs, k, date)
             after == IF values[k] = None THEN rs
                      ELSE IF OutOfRange(values[k]) THEN rs
                      ELSE IF existing # {}
                           THEN SetValue(rs, First(existing), values[k])
                           ELSE TryCreate(rs, k, date, values[k])
         IN  BulkLoop(after, k + 1, date, values)

indicator_bulk_entry(date, values) ==
    /\ Len(indicators) > 0
    /\ rows' = BulkLoop(rows, 1, date, values)
    /\ UNCHANGED <<tickers, bars, lib, indicators, wk, out>>

RECURSIVE RangeEntryLoop(_, _, _, _, _, _)
RangeEntryLoop(rs, indicator_id, date, end_date, value, overwrite_existing) ==
    IF date > end_date THEN rs
    ELSE LET existing == Matching(rs, indicator_id, date)
             after == IF existing # {}
                      THEN IF overwrite_existing
                           THEN SetValue(rs, First(existing), value)
                           ELSE rs
                      ELSE TryCreate(rs, indicator_id, date, value)
         IN  RangeEntryLoop(after, indicator_id, date + 1, end_date, value,
                            overwrite_existing)

indicator_data_range_entry(indicator_id, start_date, end_date, value, overwrite) ==
    /\ rows' = IF end_date < start_date THEN rows
               ELSE IF OutOfRange(value) THEN rows
               ELSE RangeEntryLoop(rows, indicator_id, start_date, end_date, value,
                                   overwrite)
    /\ UNCHANGED <<tickers, bars, lib, indicators, wk, out>>

\* ---- all writers together
\* the values a form posts: one inside the range, one outside
FormValues == {Frac(1, 4), R(2)}

InitWriters ==
    /\ tickers = {DefaultTicker}
    /\ bars = [d \in Dates |-> 1]
    /\ \/ indicators = <<RsiIndicator>> /\ lib = LibWarm(0, FALSE)
       \/ indicators = <<AdapterIndicator>> /\ lib = LibWarm(1, FALSE)
    /\ rows = {}
    /\ wk = [w \in Workers |-> IdleWorker]
    /\ out = [op |-> "none"]

NextWriters ==
    \/ \E i \in 1..Len(indicators), r \in Ranges : StartRange(1, i, r[1], r[2], TRUE)
    \/ \E w \in Workers : CalcDate(w)
    \/ \E w \in Workers : UpsertGet(w)
    \/ \E w \in Workers : UpsertCreate(w)
    \/ \E w \in Workers : UpsertReget(w)
    \/ \E w \in Workers : Finish(w)
    \/ \E date \in Dates, force \in BOOLEAN, id \in 0..Len(indicators) :
           update_indicators(date, force, id)
    \/ \E i \in 1..Len(indicators), date \in Dates, value \in FormValues :
           indicator_data_add(i, date, value)
    \/ \E i \in 1..Len(indicators), r \in rows, date \in Dates, value \in FormValues :
           indicator_data_edit(i, r, date, value)
    \/ \E i \in 1..Len(indicators), r \in rows : indicator_data_delete(i, r)
    \/ \E date \in Dates, values \in [1..Len(indicators) -> FormValues \cup {None}] :
           indicator_bulk_entry(date, values)
    \/ \E i \in 1..Len(indicators), r \in Ranges, value \in FormValues,
          overwrite \in BOOLEAN :
           indicator_data_range_entry(i, r[1], r[2], value, overwrite)

SpecWriters == InitWriters /\ [][NextWriters]_vars

\* the current date of run w fails: calculate_value raises, or the upsert does
FailsNow(w) ==
    \/ /\ wk[w].pc = "loop"
       /\ wk[w].cur <= wk[w].end
       /\ ~calculate_value(indicators[wk[w].ind], wk[w].cur, tickers, bars, lib).ok
    \/ /\ wk[w].pc = "get"
       /\ Cardinality(Matching(rows, wk[w].ind, wk[w].cur)) > 1
    \/ /\ wk[w].pc = "reget"
       /\ Cardinality(Matching(rows, wk[w].ind, wk[w].cur)) # 1

\* C4: the failure of a date inside a range run creates, modifies and deletes
\* no row: a row already stored for that date keeps its value, and so do the
\* rows of the other dates.
C4_FailedDateLeavesRows ==
    [][ \A w \in Workers : (FailsNow(w) /\ wk'[w] # wk[w]) => rows' = rows ]_vars

\* a run has just failed on a date that has a row entered by hand
C4_Witness ==
    \E w \in Workers :
        /\ wk[w].pc = "loop"
        /\ wk[w].visited # << >>
        /\ LET d == wk[w].visited[Len(wk[w].visited)]
           IN  /\ wk[w].cur = d + 1
               /\ \A k \in 1..Len(wk[w].results) : wk[w].results[k].date # d
               /\ \E r \in rows : /\ r.indicator = wk[w].ind
                                  /\ r.date = d
                                  /\ r.value = Frac(1, 4)

\* the rows of rs are in rs2 as they were
Kept(rs, rs2) == \A r \in rs : r \in rs2

\* only rows of these dates differ between rs and rs2
OnlyDates(rs, rs2, ds) == \A r \in (rs \ rs2) \cup (rs2 \ rs) : r.date \in ds

\* the row of the key is the same row with this value
Overwritten(rs, rs2, ind, date, value) ==
    \A r \in Matching(rs, ind, date) :
        Matching(rs2, ind, date) = {[r EXCEPT !.value = value]}

\* C6 as claimed: rows are written by the range calculator's upsert only, and
\* a write to an existing key overwrites the row.
C6_OnlyRangeCalculatorWrites ==
    [][ /\ rows' # rows => \E w \in Workers : InUpsert(w) /\ wk'[w] # wk[w]
        /\ NoDuplicateKey(rows')
      ]_vars

\* C6 amended: the range calculator, the update_indicators command and the
\* data entry views all write rows, and none of them ever makes a second row
\* for a key.  On a key that has a row: the range calculator, the command with
\* --force, bulk entry and range entry with overwrite_existing overwrite it;
\* the command without --force and range entry without overwrite_existing
\* leave it as it is, and indicator_data_add refuses.
C6_WritersNeverDuplicate ==
    [][ /\ NoDuplicateKey(rows')
        /\ \A w \in Workers :
              (wk[w].pc \in {"get", "reget"} /\ wk'[w] # wk[w] /\ ~FailsNow(w)) =>
                 Overwritten(rows, rows', wk[w].ind, wk[w].cur, wk[w].value)
        /\ \A date \in Dates, id \in 0..Len(indicators) :
              (rows' # rows /\ OnlyDates(rows, rows', {date})) =>
                 /\ Kept(rows, rows') \/ ~update_indicators(date, FALSE, id)
                 /\ ~update_indicators(date, TRUE, id)
                       \/ \A k \in 1..Len(UpdateQuery(id)) :
                             LET i == UpdateQuery(id)[k]
                                 value == calculate_value(indicators[i], date,
                                                          tickers, bars, lib)
                             IN  IF value.ok
                                 THEN Overwritten(rows, rows', i, date, value.value)
                                 ELSE Kept(Matching(rows, i, date), rows')
        /\ \A i \in 1..Len(indicators), date \in Dates, value \in FormValues :
              Kept(rows, rows') \/ ~indicator_data_add(i, date, value)
        /\ \A date \in Dates, values \in [1..Len(indicators) -> FormValues \cup {None}] :
              (\A i \in 1..Len(indicators) :
                  IF values[i] # None /\ ~OutOfRange(values[i])
                  THEN Overwritten(rows, rows', i, date, values[i])
                  ELSE Kept(Matching(rows, i, date), rows'))
                 \/ ~indicator_bulk_entry(date, values)
        /\ \A i \in 1..Len(indicators), r \in Ranges, value \in FormValues :
              /\ Kept(rows, rows')
                    \/ ~indicator_data_range_entry(i, r[1], r[2], value, FALSE)
              /\ (\A date \in r[1]..r[2] : Overwritten(rows, rows', i, date, value))
                    \/ OutOfRange(value)
                    \/ ~indicator_data_range_entry(i, r[1], r[2], value, TRUE)
      ]_vars

\* the command found a row entered by hand and, run with --force, replaced
\* its value: the table holds one row for the key, with the calculated value
C6_Witness ==
    /\ indicators = <<RsiIndicator>>
    /\ \A w \in Workers : wk[w].pc = "idle"
    /\ \E r \in rows : r.date = MaxDate /\ r.value = R(-1)
    /\ \E r \in rows : r.date = 1 /\ r.value = Frac(1, 4)
    /\ Cardinality(rows) = 2

\* ================================================ claims on the summary
\* the indicators whose calculator works on the ticker: the config names it,
\* or names none and the ticker is the calculators' default
ConfiguredAgainst(ticker) ==
    {i \in 1..Len(indicators) :
        /\ \/ indicators[i].calculation_type = "stock_indicator"
           \/ /\ indicators[i].calculation_type = "custom"
              /\ indicators[i].calculator_class \in {RSIClass, MAClass, VolClass}
        /\ Get(indicators[i].calculator_config, "ticker", DefaultTicker) = ticker}

\* C11: the summary gathers every indicator configured against the ticker,
\* whatever its calculation type: each custom-calculator indicator whose
\* config names the ticker and each adapter indicator on the default ticker
\* that yields a score is listed, as adapter indicators naming the ticker are.
C11_GathersEveryIndicatorOfTicker ==
    out.op = "summary" =>
        \A i \in ConfiguredAgainst(out.summary.ticker) :
            calculate_value(indicators[i], out.summary.date, tickers, bars, lib).ok
               => \E k \in 1..Len(out.summary.indicators) :
                     out.summary.indicators[k].title = i

\* ------------------------------------------- _score_to_sentiment on its own
ScoreSteps == 10       \* scores are the multiples of 1/(10 * ScoreSteps) in [-1, 1]

ScoreGrid == {Frac(k, 10 * ScoreSteps) : k \in (-10 * ScoreSteps)..(10 * ScoreSteps)}

InitSentiment ==
    /\ tickers = {DefaultTicker}
    /\ bars = [d \in Dates |-> 1]
    /\ lib = LibWarm(0, FALSE)
    /\ indicators = << >>
    /\ rows = {}
    /\ wk = [w \in Workers |-> IdleWorker]
    /\ \E score \in ScoreGrid : out = [op |-> "score", score |-> score]

\* label = _score_to_sentiment(score)
ScoreToSentiment ==
    /\ out.op = "score"
    /\ out' = [op |-> "sentiment", score |-> out.score,
               label |-> _score_to_sentiment(out.score)]
    /\ UNCHANGED <<tickers, bars, lib, indicators, rows, wk>>

NextSentiment == ScoreToSentiment

SpecSentiment == InitSentiment /\ [][NextSentiment]_vars

\* C12 as stated: Very Bullish for s >= 0.6, Bullish for 0.2 <= s < 0.6,
\* Neutral for s in the open interval (-0.2, 0.2), Bearish for
\* -0.6 <= s <= -0.2, Very Bearish for s < -0.6, for every s in [-1, 1].
C12_SentimentBandsOpenNeutral ==
    out.op = "sentiment" =>
        LET s == out.score
        IN  out.label =
              IF RLe(Frac(6, 10), s) THEN "Very Bullish"
              ELSE IF RLe(Frac(2, 10), s) /\ RLt(s, Frac(6, 10)) THEN "Bullish"
              ELSE IF RLt(Frac(-2, 10), s) /\ RLt(s, Frac(2, 10)) THEN "Neutral"
              ELSE IF RLe(Frac(-6, 10), s) /\ RLe(s, Frac(-2, 10)) THEN "Bearish"
              ELSE "Very Bearish"

\* C12 (amended): the same bands with -0.2 in Neutral: Neutral for
\* -0.2 <= s < 0.2 and Bearish for -0.6 <= s < -0.2; each band is closed at
\* its lower end, and every s in [-1, 1] has exactly one label.
C12_SentimentBands ==
    out.op = "sentiment" =>
        LET s == out.score
        IN  /\ out.label = "Very Bullish" <=> RLe(Frac(6, 10), s)
            /\ out.label = "Bullish" <=> (RLe(Frac(2, 10), s) /\ RLt(s, Frac(6, 10)))
            /\ out.label = "Neutral" <=> (RLe(Frac(-2, 10), s) /\ RLt(s, Frac(2, 10)))
            /\ out.label = "Bearish" <=> (RLe(Frac(-6, 10), s) /\ RLt(s, Frac(-2, 10)))
            /\ out.label = "Very Bearish" <=> RLt(s, Frac(-6, 10))

\* the score -0.2 has been labelled, and the label is Neutral
C12_Witness ==
    /\ out.op = "sentiment"
    /\ out.score = Frac(-2, 10)
    /\ out.label = "Neutral"

\* C13: the three counts of a summary cut the successful scores at 0.3, not
\* at the sentiment bands: bullish_count counts s > 0.3, bearish_count
\* s < -0.3 and neutral_count -0.3 <= s <= 0.3; every score is in exactly one
\* of the three, so the counts add up to indicator_count; scores
\* [0.8, -0.5, 0.1] give 1, 1, 1.
C13_CountsCutAtThreeTenths ==
    out.op = "summary" =>
        LET sm == out.summary
            K == 1..Len(sm.indicators)
            s(k) == sm.indicators[k].score
            bullish == {k \in K : RLt(Frac(3, 10), s(k))}
            bearish == {k \in K : RLt(s(k), Frac(-3, 10))}
            neutral == {k \in K : RLe(Frac(-3, 10), s(k)) /\ RLe(s(k), Frac(3, 10))}
        IN  /\ sm.bullish_count = Cardinality(bullish)
            /\ sm.bearish_count = Cardinality(bearish)
            /\ sm.neutral_count = Cardinality(neutral)
            /\ bullish \cap bearish = {} /\ bullish \cap neutral = {}
            /\ bearish \cap neutral = {}
            /\ bullish \cup bearish \cup neutral = K
            /\ sm.bullish_count + sm.bearish_count + sm.neutral_count
                  = sm.indicator_count
            /\ [k \in K |-> s(k)] = <<Frac(8, 10), Frac(-5, 10), Frac(1, 10)>>
                  => /\ sm.bullish_count = 1
                     /\ sm.bearish_count = 1
                     /\ sm.neutral_count = 1

\* the summary over the scores 0.8, -0.5, 0.1 has been computed
C13_Witness ==
    /\ out.op = "summary"
    /\ Len(out.summary.indicators) = 3
    /\ out.summary.indicators[1].score = Frac(8, 10)
    /\ out.summary.indicators[2].score = Frac(-5, 10)
    /\ out.summary.indicators[3].score = Frac(1, 10)
    /\ out.summary.overall_score = Frac(2, 15)
    /\ out.summary.bullish_count = 1
    /\ out.summary.bearish_count = 1
    /\ out.summary.neutral_count = 1

\* ------------------------------------------ threshold scoring on its own
MaxValueStep == 20     \* indicator values are the multiples of 5 up to 5 * MaxValueStep

ValueGrid == {R(5 * k) : k \in (-MaxValueStep)..MaxValueStep}

\* configured thresholds, oversold below overbought: the RSI, Stochastic, CCI
\* and Williams %R defaults, and bands off centre
ThresholdPairs ==
    {<<30, 70>>, <<20, 80>>, <<-100, 100>>, <<-80, -20>>, <<40, 80>>, <<20, 60>>}

\* the settings classes with thresholds and the routine whose record they score
ThresholdRoutines ==
    {<<"RSISettings", "get_rsi">>, <<"StochasticSettings", "get_stoch">>,
     <<"CCISettings", "get_cci">>, <<"WilliamsRSettings", "get_williams_r">>}

\* a library whose records all carry the number v
FlatLib(v) ==
    [raises |-> FALSE, v |-> [d \in Dates |-> v], w |-> [d \in Dates |-> R(0)]]

InitThreshold ==
    /\ tickers = {DefaultTicker}
    /\ bars = [d \in Dates |-> 1]
    /\ lib = LibWarm(0, FALSE)
    /\ indicators = << >>
    /\ rows = {}
    /\ wk = [w \in Workers |-> IdleWorker]
    /\ \E value \in ValueGrid, t \in ThresholdPairs, c \in ThresholdRoutines :
          out = [op |-> "value", value |-> value,
                 oversold |-> R(t[1]), overbought |-> R(t[2]),
                 cls |-> c[1], func |-> c[2]]

\* RSICalculator._rsi_to_score(rsi, oversold, overbought)
RsiToScore ==
    /\ out.op = "value"
    /\ out.cls = "RSISettings"
    /\ out' = [out EXCEPT !.op = "_rsi_to_score"] @@
              [res |-> _rsi_to_score(out.value, out.oversold, out.overbought)]
    /\ UNCHANGED <<tickers, bars, lib, indicators, rows, wk>>

\* the settings instance of the thresholds and the record of the value
ThresholdSettings(o) ==
    from_dict(o.cls, [oversold_threshold |-> o.oversold,
                      overbought_threshold |-> o.overbought])

\* StockIndicatorCalculator._score_threshold(result, settings)
ScoreThreshold ==
    /\ out.op = "value"
    /\ out' = [out EXCEPT !.op = "_score_threshold"] @@
              [res |-> _score_threshold(LibRecord(out.func, 1, FlatLib(out.value)),
                                        ThresholdSettings(out))]
    /\ UNCHANGED <<tickers, bars, lib, indicators, rows, wk>>

NextThreshold == RsiToScore \/ ScoreThreshold

SpecThreshold == InitThreshold /\ [][NextThreshold]_vars

\* C14: RSICalculator scores an RSI value around the midpoint of the
\* configured thresholds, neutral = (oversold + overbought) / 2: 1 at or below
\* oversold, -1 at or above overbought, (neutral - RSI)/(neutral - oversold)
\* below neutral, -(RSI - neutral)/(overbought - neutral) from neutral on, and
\* so 0 at the midpoint.
C14_RsiScoreAroundMidpoint ==
    (out.op = "_rsi_to_score" /\ RLe(R(0), out.value) /\ RLe(out.value, R(100))) =>
        LET rsi == out.value
            oversold == out.oversold
            overbought == out.overbought
            neutral == RDiv(RAdd(oversold, overbought), R(2))
        IN  /\ out.res.ok
            /\ out.res.value =
                 IF RLe(rsi, oversold) THEN R(1)
                 ELSE IF RLe(overbought, rsi) THEN R(-1)
                 ELSE IF RLt(rsi, neutral)
                      THEN RDiv(RSub(neutral, rsi), RSub(neutral, oversold))
                      ELSE RNeg(RDiv(RSub(rsi, neutral), RSub(overbought, neutral)))
            /\ rsi = neutral => out.res.value = R(0)

\* the adapter's score of value v under the thresholds of the state
ScoreAt(v) ==
    _score_threshold(LibRecord(out.func, 1, FlatLib(v)), ThresholdSettings(out)).value

\* C15: for thresholds with oversold < overbought the adapter's threshold
\* score is 1 at oversold, -1 at overbought and 0 at their midpoint, falls
\* strictly as the value rises from oversold to overbought, never rises
\* anywhere, and has no jump: two values d apart score at most
\* 2 d / (overbought - oversold) apart.
C15_ThresholdScoreMonotonic ==
    (out.op = "_score_threshold" /\ RLt(out.oversold, out.overbought)) =>
        LET value == out.value
            oversold == out.oversold
            overbought == out.overbought
            width == RSub(overbought, oversold)
        IN  /\ out.res.ok
            /\ out.res.value = ScoreAt(value)
            /\ value = oversold => out.res.value = R(1)
            /\ value = overbought => out.res.value = R(-1)
            /\ RAdd(value, value) = RAdd(oversold, overbought) => out.res.value = R(0)
            /\ \A v2 \in ValueGrid :
                  RLt(value, v2) =>
                     /\ RLe(ScoreAt(v2), out.res.value)
                     /\ (RLe(oversold, value) /\ RLe(v2, overbought))
                           => RLt(ScoreAt(v2), out.res.value)
                     /\ RLe(RMul(RSub(out.res.value, ScoreAt(v2)), width),
                            RMul(R(2), RSub(v2, value)))

\* a value at the midpoint of off-centre thresholds (40 and 80) scored 0
C15_Witness ==
    /\ out.op = "_score_threshold"
    /\ out.oversold = R(40)
    /\ out.overbought = R(80)
    /\ out.value = R(60)
    /\ out.res = Ok(R(0))

\* -------------------------------------------------- _calculate_rsi on its own
MaxSeries == 4         \* a price series has 2..MaxSeries prices, a window 1..MaxSeries

\* non-negative prices
Prices == 0..MaxClose

PriceSeries == UNION {[1..n -> Prices] : n \in 2..MaxSeries}

InitRsi ==
    /\ tickers = {DefaultTicker}
    /\ bars = [d \in Dates |-> 1]
    /\ lib = LibWarm(0, FALSE)
    /\ indicators = << >>
    /\ rows = {}
    /\ wk = [w \in Workers |-> IdleWorker]
    /\ \E prices \in PriceSeries, period \in 1..MaxSeries :
          out = [op |-> "prices", prices |-> prices, period |-> period]

\* rsi = self._calculate_rsi(prices, period)
CalculateRsi ==
    /\ out.op = "prices"
    /\ out' = [op |-> "_calculate_rsi", prices |-> out.prices, period |-> out.period,
               res |-> _calculate_rsi(out.prices, out.period)]
    /\ UNCHANGED <<tickers, bars, lib, indicators, rows, wk>>

NextRsi == CalculateRsi

SpecRsi == InitRsi /\ [][NextRsi]_vars

\* the averages after the seed window and the smoothing loop
Smoothed(prices, period) ==
    LET deltas == [i \in 1..(Len(prices) - 1) |-> prices[i + 1] - prices[i]]
        gains  == [i \in 1..Len(deltas) |-> IF deltas[i] > 0 THEN deltas[i] ELSE 0]
        losses == [i \in 1..Len(deltas) |-> IF deltas[i] < 0 THEN -deltas[i] ELSE 0]
    IN  WilderLoop(gains, losses, period, period,
                   Frac(SumSeq(PyPrefix(gains, period)), period),
                   Frac(SumSeq(PyPrefix(losses, period)), period))

\* _calculate_rsi has run on a window W >= 1 and at least W + 1 prices
RsiCase ==
    /\ out.op = "_calculate_rsi"
    /\ out.period >= 1
    /\ Len(out.prices) >= out.period + 1

\* C16: for every window W >= 1 and every series of at least W + 1
\* non-negative prices, _calculate_rsi raises nothing and returns a value in
\* [0, 100]; when the smoothed average loss is 0 it returns exactly 100, the
\* division avg_gain / avg_loss not being performed.
C16_RsiInRange ==
    RsiCase =>
        /\ out.res.ok
        /\ RLe(R(0), out.res.value)
        /\ RLe(out.res.value, R(100))
        /\ Smoothed(out.prices, out.period).l = R(0) => out.res = Ok(R(100))

\* prices that only rise: the average loss is 0 and the RSI is 100
C16_Witness ==
    /\ RsiCase
    /\ out.period = 2
    /\ out.prices = <<0, 1, 2, 2>>
    /\ Smoothed(out.prices, out.period).l = R(0)
    /\ out.res = Ok(R(100))

\* every delta of the seed window (the first W deltas) is a loss
SeedAllLosses ==
    \A i \in 1..out.period : out.prices[i + 1] < out.prices[i]

\* C17 as stated: if every delta in the seed window is a loss, _calculate_rsi
\* returns exactly 100 and raises no exception.
C17_SeedLossesGive100 ==
    (RsiCase /\ SeedAllLosses) => out.res = Ok(R(100))

\* C17 (amended): if every delta in the seed window is a loss, _calculate_rsi
\* raises no exception; on a series of exactly W + 1 prices it returns exactly
\* 0, and it returns exactly 100 only when the smoothed average loss is 0.
C17_SeedLossesGive0 ==
    (RsiCase /\ SeedAllLosses) =>
        /\ out.res.ok
        /\ Len(out.prices) = out.period + 1 => out.res.value = R(0)
        /\ out.res.value = R(100) <=> Smoothed(out.prices, out.period).l = R(0)

\* three falling prices under a window of 2: the RSI is 0
C17_Witness ==
    /\ RsiCase
    /\ out.period = 2
    /\ out.prices = <<2, 1, 0>>
    /\ out.res = Ok(R(0))

\* the gains and the losses of the deltas, a delta of 0 being neither
GainsOf(prices) ==
    [i \in 1..(Len(prices) - 1) |->
        IF prices[i + 1] > prices[i] THEN prices[i + 1] - prices[i] ELSE 0]
LossesOf(prices) ==
    [i \in 1..(Len(prices) - 1) |->
        IF prices[i + 1] < prices[i] THEN prices[i] - prices[i + 1] ELSE 0]

\* the average after the k-th value: the simple mean of the first `period`
\* values, then one step avg = (avg * (period - 1) + value) / period per
\* later value, in order
RECURSIVE WilderAverage(_, _, _)
WilderAverage(values, period, k) ==
    IF k <= period THEN Frac(SumSeq(SubSeq(values, 1, period)), period)
    ELSE RDiv(RAdd(RMul(WilderAverage(values, period, k - 1), R(period - 1)),
                   R(values[k])),
              R(period))

\* C26: _calculate_rsi seeds avg_gain and avg_loss with the simple mean of
\* the first `period` gains and of the first `period` losses, then applies
\* avg = (avg * (period - 1) + value[i]) / period once per later delta, in
\* order, to each average on its own; with exactly period + 1 prices no
\* smoothing step runs and the averages are the seeds.
C26_SeedThenWilderSmoothing ==
    RsiCase =>
        LET period == out.period
            n == Len(out.prices) - 1
            avg_gain == WilderAverage(GainsOf(out.prices), period, n)
            avg_loss == WilderAverage(LossesOf(out.prices), period, n)
            seed_gain == Frac(SumSeq(SubSeq(GainsOf(out.prices), 1, period)), period)
            seed_loss == Frac(SumSeq(SubSeq(LossesOf(out.prices), 1, period)), period)
        IN  /\ Smoothed(out.prices, period) = [ok |-> TRUE, g |-> avg_gain, l |-> avg_loss]
            /\ n = period =>
                  Smoothed(out.prices, period) = [ok |-> TRUE, g |-> seed_gain, l |-> seed_loss]
            /\ out.res = IF avg_loss = R(0) THEN Ok(R(100))
                         ELSE Ok(RSub(R(100),
                                      RDiv(R(100), RAdd(R(1), RDiv(avg_gain, avg_loss)))))

\* a window of 2 and four prices: seeds 1 and 1/2, one smoothing step gives
\* 1 and 1/4, the RSI is 100 - 100 / (1 + 4)
C26_Witness ==
    /\ RsiCase
    /\ out.period = 2
    /\ out.prices = <<0, 2, 1, 2>>
    /\ Smoothed(out.prices, out.period) = [ok |-> TRUE, g |-> R(1), l |-> Frac(1, 4)]
    /\ out.res = Ok(R(80))

\* ------------------------------------- RSICalculator over a sparse history
MaxGap == 22           \* the oldest observation lies MaxGap days before the target day

TargetDay == MaxGap + 1

\* the days a price may have been observed on: two old ones, three recent ones
ObservationDays == {1, 2, TargetDay - 2, TargetDay - 1, TargetDay}

SparseBars == UNION {[D -> Closes] : D \in SUBSET ObservationDays}

InitHistory ==
    /\ tickers = {DefaultTicker}
    /\ bars \in SparseBars
    /\ lib = LibWarm(0, FALSE)
    /\ \E period \in 1..3 : indicators = <<CustomInd(RSIClass, [period |-> period])>>
    /\ rows = {}
    /\ wk = [w \in Workers |-> IdleWorker]
    /\ out = [op |-> "none"]

NextHistory == \E date \in {TargetDay - 1, TargetDay} : CalculateValue(1, date)

SpecHistory == InitHistory /\ [][NextHistory]_vars

\* the observations of the ticker up to the date
ObservedUpTo(date) == {d \in DOMAIN bars : d <= date}

\* C18: RSICalculator.calculate(date) succeeds whenever the ticker has exactly
\* window + 1 price observations ending at the date, however many calendar
\* days lie between them, and fails with an insufficient-history error when
\* only window observations are available.
C18_WindowPlusOneObservationsSuffice ==
    out.op = "calculate_value" =>
        LET window == indicators[1].calculator_config.period
            obs == ObservedUpTo(out.date)
        IN  /\ (Cardinality(obs) = window + 1 /\ out.date \in obs) => out.res.ok
            /\ Cardinality(obs) = window => (~out.res.ok /\ out.res.err = "ValueError")

\* ------------------------------------ settings creation and what it admits
MaxCreated == 1        \* indicators that create_stock_indicator adds in a run

\* settings_class(**kwargs) of the registered class: a keyword that is no
\* field of the dataclass is a TypeError, every value is taken as given
create_settings(indicator_name, kwargs) ==
    IF indicator_name \notin DOMAIN SETTINGS_REGISTRY THEN Fail("ValueError")
    ELSE LET cls == SETTINGS_REGISTRY[indicator_name]
         IN  IF \E k \in DOMAIN kwargs : k \notin DOMAIN SettingsDefaults[cls]
             THEN Fail("TypeError")
             ELSE Ok(from_dict(cls, kwargs))

\* the Indicator row that create_stock_indicator hands to objects.create
create_stock_indicator(indicator_name, ticker, score_method, indicator_settings) ==
    IF indicator_name \notin DOMAIN SETTINGS_REGISTRY THEN Fail("ValueError")
    ELSE LET settings == create_settings(indicator_name, indicator_settings)
         IN  IF ~settings.ok THEN settings
             ELSE Ok(StockInd(indicator_name, NoneStr, to_dict(settings.value),
                              [ticker |-> ticker, score_method |-> score_method]))

\* keyword arguments a caller may pass: none, a sound window, windows of 0 and
\* -1, thresholds that cross or meet, and a keyword that is no field
SettingsKwargs ==
    << << >>,
       [lookback_periods |-> R(2)],
       [lookback_periods |-> R(0)],
       [lookback_periods |-> R(-1)],
       [oversold_threshold |-> R(70), overbought_threshold |-> R(30)],
       [oversold_threshold |-> R(50), overbought_threshold |-> R(50)],
       [window |-> R(3)] >>

SettingsNames == {"rsi", "cci", "williams_r", "sma", "stochastic", "rsi2"}

\* RSICalculator configs: sound, windows of 0 and -1, thresholds that cross
RsiConfigs ==
    << [period |-> 1],
       [period |-> 0],
       [period |-> -1],
       [period |-> 1, oversold_threshold |-> R(70), overbought_threshold |-> R(30)],
       [period |-> 2, oversold_threshold |-> R(50), overbought_threshold |-> R(50)] >>

InitSettings ==
    /\ tickers = {DefaultTicker}
    /\ \E flat \in BOOLEAN : bars = [d \in Dates |-> IF flat THEN 1 ELSE 1 + (d % 2)]
    /\ \E raises \in BOOLEAN : lib = LibWarm(0, raises)
    /\ \/ indicators = << >>
       \/ \E k \in 1..Len(RsiConfigs) : indicators = <<CustomInd(RSIClass, RsiConfigs[k])>>
    /\ rows = {}
    /\ wk = [w \in Workers |-> IdleWorker]
    /\ out = [op |-> "none"]

\* helpers.create_stock_indicator(title, indicator_name, **indicator_settings)
CreateStockIndicator(indicator_name, k) ==
    /\ Len(SelectSeq(indicators, LAMBDA i : i.calculation_type = "stock_indicator"))
          < MaxCreated
    /\ LET created == create_stock_indicator(indicator_name, DefaultTicker, "auto",
                                             SettingsKwargs[k])
       IN  /\ indicators' = IF created.ok THEN Append(indicators, created.value)
                            ELSE indicators
           /\ out' = [op |-> "create_stock_indicator", ok |-> created.ok,
                      err |-> created.err]
    /\ UNCHANGED <<tickers, bars, lib, rows, wk>>

NextSettings ==
    \/ \E indicator_name \in SettingsNames, k \in 1..Len(SettingsKwargs) :
          CreateStockIndicator(indicator_name, k)
    \/ \E i \in 1..Len(indicators), date \in Dates : CalculateValue(i, date)

SpecSettings == InitSettings /\ [][NextSettings]_vars

\* the lookback window and the thresholds the indicator's calculator works with
WindowOf(ind) ==
    IF ind.calculation_type = "custom"
    THEN R(Get(ind.calculator_config, "period", RsiDefaultPeriod))
    ELSE _get_settings(get_calculator(ind).value.config).value.f.lookback_periods

OversoldOf(ind) ==
    IF ind.calculation_type = "custom"
    THEN Get(ind.calculator_config, "oversold_threshold", R(RsiDefaultOversold))
    ELSE getattr(_get_settings(get_calculator(ind).value.config).value,
                 "oversold_threshold", R(30))

OverboughtOf(ind) ==
    IF ind.calculation_type = "custom"
    THEN Get(ind.calculator_config, "overbought_threshold", R(RsiDefaultOverbought))
    ELSE getattr(_get_settings(get_calculator(ind).value.config).value,
                 "overbought_threshold", R(70))

\* a non-positive window, or oversold not below overbought
InvalidSettings(ind) ==
    /\ ind.calculation_type = "stock_indicator"
          => _get_settings(get_calculator(ind).value.config).ok
    /\ \/ RLe(WindowOf(ind), R(0))
       \/ RLe(OverboughtOf(ind), OversoldOf(ind))

\* C19: invalid settings are rejected, not used: settings built by
\* create_settings or given as a calculator config with a non-positive
\* lookback window or with oversold_threshold >= overbought_threshold never
\* produce a score; creation or calculate fails.
C19_InvalidSettingsNeverScore ==
    (out.op = "calculate_value" /\ InvalidSettings(indicators[out.ind]))
        => ~out.res.ok

\* ------------------------------------------- to_dict / from_dict round trip
\* the registered settings classes
SettingsClasses == {SETTINGS_REGISTRY[name] : name \in DOMAIN SETTINGS_REGISTRY}

\* what a caller may give a field: None or a number
FieldValues == {None, R(7)}

\* a key that is a field of no settings class
ExtraKeys == [schema_version |-> R(2)]

\* cls(**kwargs): the fields that are not given keep their defaults
InitRoundTrip ==
    /\ tickers = {DefaultTicker}
    /\ bars = [d \in Dates |-> 1]
    /\ lib = LibWarm(0, FALSE)
    /\ indicators = << >>
    /\ rows = {}
    /\ wk = [w \in Workers |-> IdleWorker]
    /\ \E cls \in SettingsClasses, extra \in BOOLEAN :
          \E F \in SUBSET DOMAIN SettingsDefaults[cls] :
             \E kwargs \in [F -> FieldValues] :
                out = [op |-> "instance", s |-> from_dict(cls, kwargs), extra |-> extra]

\* d = s.to_dict()
ToDict ==
    /\ out.op = "instance"
    /\ out' = [op |-> "to_dict", s |-> out.s, extra |-> out.extra, d |-> to_dict(out.s)]
    /\ UNCHANGED <<tickers, bars, lib, indicators, rows, wk>>

\* back = type(s).from_dict(d), d with or without a key that is no field
FromDict ==
    /\ out.op = "to_dict"
    /\ out' = [op |-> "from_dict", s |-> out.s, extra |-> out.extra, d |-> out.d,
               back |-> from_dict(out.s.cls,
                                  IF out.extra THEN Merge(out.d, ExtraKeys) ELSE out.d)]
    /\ UNCHANGED <<tickers, bars, lib, indicators, rows, wk>>

NextRoundTrip == ToDict \/ FromDict

SpecRoundTrip == InitRoundTrip /\ [][NextRoundTrip]_vars

\* to_dict has omitted exactly the fields whose value is None, and from_dict
\* has returned the same instance with and without the extra key
OmitsNoneIgnoresExtra ==
    /\ DOMAIN out.d = {k \in DOMAIN out.s.f : out.s.f[k] # None}
    /\ \A k \in DOMAIN out.d : out.d[k] = out.s.f[k]
    /\ out.back = from_dict(out.s.cls, out.d)

\* C20 as stated: for every registered settings type and every instance s,
\* from_dict(s.to_dict()) equals s; to_dict omits exactly the fields whose
\* value is None; from_dict ignores the keys that are not fields.
C20_RoundTripIsIdentity ==
    out.op = "from_dict" =>
        /\ out.back = out.s
        /\ OmitsNoneIgnoresExtra

\* C20 (amended): from_dict(s.to_dict()) equals s with every field whose
\* value is None set back to its default, so it equals s exactly when no
\* field with a default other than None holds None; to_dict omits exactly the
\* fields whose value is None; from_dict ignores the keys that are not fields.
C20_RoundTripRestoresDefaults ==
    out.op = "from_dict" =>
        LET defaults == SettingsDefaults[out.s.cls]
        IN  /\ out.back.cls = out.s.cls
            /\ DOMAIN out.back.f = DOMAIN out.s.f
            /\ \A k \in DOMAIN out.s.f :
                  out.back.f[k] = IF out.s.f[k] = None THEN defaults[k] ELSE out.s.f[k]
            /\ out.back = out.s
                  <=> \A k \in DOMAIN out.s.f : out.s.f[k] = None => defaults[k] = None
            /\ OmitsNoneIgnoresExtra

\* an RSISettings instance with lookback_periods None and a threshold of 7
\* came back, through a mapping with an extra key, with lookback_periods 14
C20_Witness ==
    /\ out.op = "from_dict"
    /\ out.extra
    /\ out.s.cls = "RSISettings"
    /\ out.s.f.lookback_periods = None
    /\ out.s.f.oversold_threshold = R(7)
    /\ DOMAIN out.d = {"oversold_threshold", "overbought_threshold"}
    /\ out.back.f.lookback_periods = R(14)
    /\ out.back.f.oversold_threshold = R(7)

\* --------------------------------------------- indicator names end to end
\* the create_*_indicator helpers: the name, the score_method and the
\* settings each passes to create_stock_indicator
HelperCalls ==
    [create_rsi_indicator |->
        [indicator_name |-> "rsi", score_method |-> "threshold",
         settings |-> [lookback_periods |-> R(14), oversold_threshold |-> R(30),
                       overbought_threshold |-> R(70)]],
     create_macd_indicator |->
        [indicator_name |-> "macd", score_method |-> "momentum",
         settings |-> [fast_periods |-> R(12), slow_periods |-> R(26),
                       signal_periods |-> R(9)]],
     create_sma_indicator |->
        [indicator_name |-> "sma", score_method |-> "auto",
         settings |-> [lookback_periods |-> R(20)]],
     create_ema_indicator |->
        [indicator_name |-> "ema", score_method |-> "auto",
         settings |-> [lookback_periods |-> R(20)]],
     create_bollinger_bands_indicator |->
        [indicator_name |-> "bollinger_bands", score_method |-> "auto",
         settings |-> [lookback_periods |-> R(20), standard_deviations |-> R(2)]],
     create_stochastic_indicator |->
        [indicator_name |-> "stoch", score_method |-> "threshold",
         settings |-> [lookback_periods |-> R(14), signal_periods |-> R(3),
                       smooth_periods |-> R(3)]]]

\* every name the settings registry or the adapter's routine map knows
AdapterNames == DOMAIN SETTINGS_REGISTRY \cup DOMAIN indicator_map

\* an Indicator row entered with the name alone, as the admin form allows
NamedIndicator(name) == StockInd(name, NoneStr, << >>, [ticker |-> DefaultTicker])

InitNames ==
    /\ tickers = {DefaultTicker}
    /\ \E flat \in BOOLEAN : bars = [d \in Dates |-> IF flat THEN 1 ELSE 1 + (d % 2)]
    /\ lib \in {LibWarm(0, FALSE), LibTrend}
    /\ \/ indicators = << >>
       \/ \E name \in AdapterNames : indicators = <<NamedIndicator(name)>>
    /\ rows = {}
    /\ wk = [w \in Workers |-> IdleWorker]
    /\ out = [op |-> "none"]

\* create_rsi_indicator(title), create_macd_indicator(title), ...
CreateWithHelper(h) ==
    /\ Len(SelectSeq(indicators, LAMBDA i : i.calculation_type = "stock_indicator"))
          < MaxCreated
    /\ LET call == HelperCalls[h]
           created == create_stock_indicator(call.indicator_name, DefaultTicker,
                                             call.score_method, call.settings)
       IN  /\ indicators' = IF created.ok THEN Append(indicators, created.value)
                            ELSE indicators
           /\ out' = [op |-> "create_helper", helper |-> h, ok |-> created.ok,
                      err |-> created.err]
    /\ UNCHANGED <<tickers, bars, lib, rows, wk>>

NextNames ==
    \/ \E h \in DOMAIN HelperCalls : CreateWithHelper(h)
    \/ \E indicator_name \in AdapterNames : CreateStockIndicator(indicator_name, 1)
    \/ \E i \in 1..Len(indicators), date \in Dates : CalculateValue(i, date)

SpecNames == InitNames /\ [][NextNames]_vars

\* the name passes the settings lookup, resolving to the class, and the
\* routine mapping, resolving to the routine of the class's canonical name
PassesBoth(name, cls) ==
    LET settings == _get_settings([indicator_name |-> name, indicator_settings |-> << >>])
    IN  /\ settings.ok
        /\ settings.value.cls = cls
        /\ name \in DOMAIN indicator_map
        /\ get_indicator_name[cls] \in DOMAIN indicator_map
        /\ indicator_map[name] = indicator_map[get_indicator_name[cls]]

\* C21: each of the 13 registered indicator types has a name that, with no
\* settings-class override, passes the adapter's settings lookup and its
\* routine mapping, the routine being that of the settings' canonical name;
\* a name with a mapped routine is not turned down by the settings lookup;
\* and every create_*_indicator helper passes a name that
\* create_stock_indicator accepts.
C21_EveryTypeHasWorkingName ==
    /\ \A cls \in SettingsClasses : \E name \in AdapterNames : PassesBoth(name, cls)
    /\ \A name \in DOMAIN indicator_map :
          _get_settings([indicator_name |-> name, indicator_settings |-> << >>]).ok
    /\ out.op = "create_helper" => out.ok

\* ------------------------------------------- the adapter's scoring strategy
\* calculator_config as to score_method: absent, auto, the four strategies,
\* and values that are no strategy
StrategyConfigs ==
    << [ticker |-> DefaultTicker],
       [score_method |-> "auto"],
       [score_method |-> "threshold"],
       [score_method |-> "momentum"],
       [score_method |-> "range"],
       [score_method |-> "custom", custom_score_function |-> "scores.mid"],
       [score_method |-> "zscore"],
       [score_method |-> ""] >>

\* settings-class overrides: none, and classes of the other two auto groups
StrategyOverrides == {NoneStr, "MACDSettings", "SMASettings"}

InitStrategy ==
    /\ tickers = {DefaultTicker}
    /\ bars \in {[d \in Dates |-> 1], [d \in Dates \ {2} |-> 1]}
    /\ lib \in {LibWarm(1, FALSE), LibWarm(2, FALSE), LibTrend}
    /\ \E name \in AdapterNames, cls \in StrategyOverrides, k \in 1..Len(StrategyConfigs) :
          indicators = <<StockInd(name, cls, << >>, StrategyConfigs[k])>>
    /\ rows = {}
    /\ wk = [w \in Workers |-> IdleWorker]
    /\ out = [op |-> "none"]

NextStrategy == \E date \in Dates : CalculateValue(1, date)

SpecStrategy == InitStrategy /\ [][NextStrategy]_vars

\* what calculate returns once a strategy has given its score
AfterStrategy(score) ==
    IF ~score.ok THEN score
    ELSE IF score.value = None THEN Fail("TypeError")
    ELSE Ok(validate_value(score.value))

\* the last record of the series dated as asked
RecordAt(results, date) ==
    results[CHOOSE i \in 1..Len(results) :
               /\ results[i].date = date
               /\ \A j \in 1..Len(results) : results[j].date = date => j <= i]

\* C22: the adapter scores with the configured score_method when it is
\* threshold, momentum, range or custom; with 'auto' or none configured it
\* picks from the settings' canonical name: rsi, stoch, cci, williams_r ->
\* threshold; macd, obv -> momentum; any other name -> range; any other
\* score_method makes calculate fail (ValueError) and no score is returned.
C22_StrategyAsConfiguredOrAuto ==
    out.op = "calculate_value" =>
        LET config == get_calculator(indicators[out.ind]).value.config
            settings == _get_settings(config)
            quotes == _get_quotes(config, Get(config, "ticker", DefaultTicker),
                                  out.date, tickers, bars)
            results == _calculate_indicator(config.indicator_name, quotes.value,
                                            settings.value, lib)
            reached == /\ config.indicator_name \notin {NoneStr, ""}
                       /\ settings.ok
                       /\ quotes.ok
                       /\ results.ok
                       /\ \E i \in 1..Len(results.value) :
                             results.value[i].date = out.date
            method == Get(config, "score_method", "auto")
            canonical == get_indicator_name[settings.value.cls]
            strategy == IF method \in {"threshold", "momentum", "range", "custom"}
                        THEN method
                        ELSE IF method # "auto" THEN "unsupported"
                        ELSE IF canonical \in {"rsi", "stoch", "cci", "williams_r"}
                        THEN "threshold"
                        ELSE IF canonical \in {"macd", "obv"} THEN "momentum"
                        ELSE "range"
            result == RecordAt(results.value, out.date)
        IN  reached =>
              /\ strategy = "threshold" =>
                    out.res = AfterStrategy(_score_threshold(result, settings.value))
              /\ strategy = "momentum" =>
                    out.res = AfterStrategy(_score_momentum(results.value, out.date,
                                                            settings.value))
              /\ strategy = "range" =>
                    out.res = AfterStrategy(_score_range(result, settings.value))
              /\ strategy = "custom" =>
                    out.res = AfterStrategy(_score_custom(result, settings.value, config))
              /\ strategy = "unsupported" =>
                    (~out.res.ok /\ out.res.err = "ValueError" /\ out.res.value = None)

\* a MACD indicator without score_method was scored by momentum:
\* (3 - (-1)) / 5
C22_Witness ==
    /\ out.op = "calculate_value"
    /\ indicators[1].stock_indicator_name = "macd"
    /\ indicators[1].stock_indicator_settings_class = NoneStr
    /\ "score_method" \notin DOMAIN indicators[1].calculator_config
    /\ lib = LibTrend
    /\ out.date = 2
    /\ out.res = Ok(Frac(4, 5))


\* some indicator field of the record is null
NullField(result) == \E a \in DOMAIN result \ {"date"} : result[a] = None

\* C23: under the threshold strategy and under the momentum strategy alike,
\* calculate fails and returns no score whenever the computed series has no
\* record dated target_date, or the record of target_date has a null indicator
\* field (MACD or OBV still null during warm-up).
C23_NullOrAbsentRecordFails ==
    out.op = "calculate_value" =>
        LET config == get_calculator(indicators[out.ind]).value.config
            settings == _get_settings(config)
            quotes == _get_quotes(config, Get(config, "ticker", DefaultTicker),
                                  out.date, tickers, bars)
            results == _calculate_indicator(config.indicator_name, quotes.value,
                                            settings.value, lib)
            computed == /\ config.indicator_name \notin {NoneStr, ""}
                        /\ settings.ok
                        /\ quotes.ok
                        /\ results.ok
            configured == Get(config, "score_method", "auto")
            method == IF configured = "auto"
                      THEN _get_auto_score_method(get_indicator_name[settings.value.cls])
                      ELSE configured
            absent == \A i \in 1..Len(results.value) : results.value[i].date # out.date
        IN  (computed /\ method \in {"threshold", "momentum"}) =>
               ((absent \/ NullField(RecordAt(results.value, out.date))) =>
                    (~out.res.ok /\ out.res.value = None))


\* ------------------------------------------------------- momentum scoring
MaxRecords == 3        \* longest series handed to the momentum scorer

\* numbers a routine reports: null, zero, below and above zero, and two
\* large ones five percent apart
MomentumValues == {None, R(0), Frac(5, 2), R(-4), R(100), R(105)}
SignalValues == {R(0), R(1)}

\* series of MACD records and of OBV records, one per day from day 1 on
MacdSeries ==
    UNION {[1..n -> [macd : MomentumValues, signal : SignalValues]] : n \in 1..MaxRecords}
ObvSeries == UNION {[1..n -> [obv : MomentumValues]] : n \in 1..MaxRecords}

Dated(series) == [i \in 1..Len(series) |-> [date |-> i] @@ series[i]]

InitMomentum ==
    /\ tickers = {DefaultTicker}
    /\ bars = [d \in Dates |-> 1]
    /\ lib = LibWarm(0, FALSE)
    /\ indicators = << >>
    /\ rows = {}
    /\ wk = [w \in Workers |-> IdleWorker]
    /\ \E series \in MacdSeries \cup ObvSeries, target_date \in 1..(MaxRecords + 1) :
          /\ target_date <= Len(series) + 1
          /\ out = [op |-> "series", results |-> Dated(series),
                    target_date |-> target_date]

ScoreMomentum ==
    /\ out.op = "series"
    /\ out' = [op |-> "_score_momentum", results |-> out.results,
               target_date |-> out.target_date,
               res |-> _score_momentum(out.results, out.target_date,
                                       from_dict("MACDSettings", << >>))]
    /\ UNCHANGED <<tickers, bars, lib, indicators, rows, wk>>

NextMomentum == ScoreMomentum

SpecMomentum == InitMomentum /\ [][NextMomentum]_vars

\* max(-1, min(1, x))
ClampUnit(x) ==
    LET low == IF RLe(x, R(1)) THEN x ELSE R(1)
    IN  IF RLe(R(-1), low) THEN low ELSE R(-1)

\* C24: momentum scoring returns clamp((macd - signal)/5, -1, 1) for a MACD
\* record (macd = 2.5, signal = 0 gives 0.5), clamp(((obv_t - obv_{t-1}) /
\* |obv_{t-1}|) * 10, -1, 1) for an OBV record, obv_{t-1} being the record
\* just before the target record, and 0.0 when the target record is the
\* first of the series.
C24_MomentumFormulas ==
    out.op = "_score_momentum" =>
        LET results == out.results
            t == out.target_date
            current == results[t]
            previous == results[t - 1]
        IN  /\ (t = 1) => out.res = Ok(R(0))
            /\ (t \in 2..Len(results) /\ "macd" \in DOMAIN current
                  /\ current.macd # None /\ current.signal # None) =>
                   out.res = Ok(ClampUnit(RDiv(RSub(current.macd, current.signal), R(5))))
            /\ (t \in 2..Len(results) /\ "macd" \in DOMAIN current
                  /\ current.macd = Frac(5, 2) /\ current.signal = R(0)) =>
                   out.res = Ok(Frac(1, 2))
            /\ (t \in 2..Len(results) /\ "obv" \in DOMAIN current
                  /\ current.obv # None /\ previous.obv # None /\ previous.obv # R(0)) =>
                   out.res = Ok(ClampUnit(RMul(RDiv(RSub(current.obv, previous.obv),
                                                    RAbs(previous.obv)), R(10))))

\* an OBV record scored against the record just before it, not against the
\* first one: ((105 - 100) / 100) * 10
C24_Witness ==
    /\ out.op = "_score_momentum"
    /\ out.target_date = 3
    /\ Len(out.results) = 3
    /\ "obv" \in DOMAIN out.results[3]
    /\ out.results[1].obv = R(-4)
    /\ out.results[2].obv = R(100)
    /\ out.results[3].obv = R(105)
    /\ out.res = Ok(Frac(1, 2))


\* C25: under auto-selection no registered indicator type maps to the range
\* strategy: for every name of the settings registry, an adapter indicator
\* whose score_method is 'auto' (or not configured) never gets its score from
\* _score_range.
C25_AutoNeverSelectsRange ==
    out.op = "calculate_value" =>
        LET config == get_calculator(indicators[out.ind]).value.config
            settings == _get_settings(config)
        IN  (/\ config.indicator_name \in DOMAIN SETTINGS_REGISTRY
             /\ Get(config, "settings_class", NoneStr) = NoneStr
             /\ Get(config, "score_method", "auto") = "auto"
             /\ out.res.ok) =>
                _get_auto_score_method(get_indicator_name[settings.value.cls]) # "range"


\* ------------------------- the range calculator next to the data entry views
InitPersist ==
    /\ tickers = {DefaultTicker}
    /\ bars = [d \in Dates |-> 1]
    /\ \/ indicators = <<RsiIndicator>> /\ lib = LibWarm(0, FALSE)
       \/ indicators = <<AdapterIndicator>> /\ lib = LibWarm(1, FALSE)
    /\ rows = {}
    /\ wk = [w \in Workers |-> IdleWorker]
    /\ out = [op |-> "none"]

NextPersist ==
    \/ \E i \in 1..Len(indicators), r \in Ranges, save \in BOOLEAN :
           StartRange(1, i, r[1], r[2], save)
    \/ \E w \in Workers : CalcDate(w)
    \/ \E w \in Workers : UpsertGet(w)
    \/ \E w \in Workers : UpsertCreate(w)
    \/ \E w \in Workers : UpsertReget(w)
    \/ \E w \in Workers : Finish(w)
    \/ \E i \in 1..Len(indicators), date \in Dates, value \in FormValues :
           indicator_data_add(i, date, value)
    \/ \E i \in 1..Len(indicators), r \in rows : indicator_data_delete(i, r)

SpecPersist == InitPersist /\ [][NextPersist]_vars

\* C27: with save_to_db=True every entry {date, value} of the returned list
\* is persisted as the IndicatorData row of (indicator, date) with exactly
\* that value -- the upsert of the entry's date leaves that row behind, also
\* when it raises; with save_to_db=False the call creates and modifies no row.
C27_ReturnedEntriesArePersisted ==
    [][ \A w \in Workers :
          /\ (wk[w].save /\ InUpsert(w) /\ wk'[w].pc = "loop") =>
                LET entry == wk'[w].results[Len(wk'[w].results)]
                IN  /\ entry.date = wk[w].cur
                    /\ \E r \in rows' : /\ r.indicator = wk[w].ind
                                        /\ r.date = entry.date
                                        /\ r.value = entry.value
          /\ (~wk[w].save /\ wk[w].pc # "idle" /\ wk'[w] # wk[w]) => rows' = rows
      ]_vars


\* ------------------------------------ the threshold scorers on any thresholds
\* thresholds in any order: equal, reversed, on the RSI neutral point
ThresholdLevels == {0, 30, 45, 50, 55, 70, 100}

InitAnyThreshold ==
    /\ tickers = {DefaultTicker}
    /\ bars = [d \in Dates |-> 1]
    /\ lib = LibWarm(0, FALSE)
    /\ indicators = << >>
    /\ rows = {}
    /\ wk = [w \in Workers |-> IdleWorker]
    /\ \E value \in ValueGrid, oversold \in ThresholdLevels,
          overbought \in ThresholdLevels, c \in ThresholdRoutines :
          out = [op |-> "value", value |-> value,
                 oversold |-> R(oversold), overbought |-> R(overbought),
                 cls |-> c[1], func |-> c[2]]

SpecAnyThreshold == InitAnyThreshold /\ [][NextThreshold]_vars

\* C28: neither threshold scorer divides by zero: for every indicator value
\* and every pair of thresholds -- oversold = overbought, oversold >
\* overbought and thresholds on the neutral point included -- _score_threshold
\* and _rsi_to_score raise nothing and return a score in [-1, 1].
C28_ThresholdScorersNeverDivideByZero ==
    out.op \in {"_score_threshold", "_rsi_to_score"} =>
        /\ out.res.ok
        /\ RLe(R(-1), out.res.value)
        /\ RLe(out.res.value, R(1))

\* both thresholds and the RSI on the neutral point 50: the score is 1, no
\* interpolation is done
C28_Witness ==
    /\ out.op = "_rsi_to_score"
    /\ out.oversold = R(50)
    /\ out.overbought = R(50)
    /\ out.value = R(50)
    /\ out.res = Ok(R(1))


\* the settings classes that carry interpretation thresholds
ThresholdClasses ==
    {"RSISettings", "StochasticSettings", "CCISettings", "WilliamsRSettings"}

\* C29: the thresholds oversold_threshold and overbought_threshold of the
\* RSI, Stochastic, CCI and Williams %R settings serve the score conversion
\* only: the keyword parameters the adapter passes to the external routine
\* (params = settings.to_dict()) never contain the threshold fields.
C29_ThresholdsNotPassedToRoutine ==
    out.op = "calculate_value" =>
        LET config == get_calculator(indicators[out.ind]).value.config
            settings == _get_settings(config)
            quotes == _get_quotes(config, Get(config, "ticker", DefaultTicker),
                                  out.date, tickers, bars)
            called == /\ config.indicator_name \notin {NoneStr, ""}
                      /\ settings.ok
                      /\ quotes.ok
                      /\ config.indicator_name \in DOMAIN indicator_map
            params == to_dict(settings.value)
        IN  (called /\ settings.value.cls \in ThresholdClasses) =>
               DOMAIN params \cap {"oversold_threshold", "overbought_threshold"} = {}


\* ------------------------------ update_indicators over created indicators
InitAutoUpdate ==
    /\ tickers = {DefaultTicker}
    /\ \E flat \in BOOLEAN : bars = [d \in Dates |-> IF flat THEN 1 ELSE 1 + (d % 2)]
    /\ lib \in {LibWarm(0, FALSE), LibWarm(1, FALSE)}
    /\ indicators = <<RsiIndicator>>
    /\ rows = {}
    /\ wk = [w \in Workers |-> IdleWorker]
    /\ out = [op |-> "none"]

NextAutoUpdate ==
    \/ \E indicator_name \in SettingsNames : CreateStockIndicator(indicator_name, 1)
    \/ \E date \in Dates, force \in BOOLEAN, id \in 0..Len(indicators) :
           update_indicators(date, force, id)
    \/ \E i \in 1..Len(indicators), r \in rows : indicator_data_delete(i, r)

SpecAutoUpdate == InitAutoUpdate /\ [][NextAutoUpdate]_vars

\* the indicators that have a calculation strategy: an adapter indicator, or
\* a custom one with its calculator class
HasStrategy(i) ==
    \/ indicators[i].calculation_type = "stock_indicator"
    \/ /\ indicators[i].calculation_type = "custom"
       /\ indicators[i].calculator_class # NoneStr

\* C30: a run of update_indicators without --indicator-id selects every
\* indicator with auto_update=True and a calculation strategy, the adapter
\* indicators that create_stock_indicator made (auto_update defaults to True)
\* included, and attempts its score for the target date: where the score can
\* be calculated and no row is in the way, the run leaves the row behind.
C30_AutoUpdateSelectsEveryCalculable ==
    [][ \A date \in Dates, force \in BOOLEAN :
          update_indicators(date, force, 0) =>
             \A i \in 1..Len(indicators) :
                (indicators[i].auto_update /\ HasStrategy(i)) =>
                   /\ \E k \in 1..Len(UpdateQuery(0)) : UpdateQuery(0)[k] = i
                   /\ LET value == calculate_value(indicators[i], date, tickers, bars, lib)
                      IN  (value.ok /\ ~CmdSkip(Matching(rows, i, date), force)) =>
                             \E r \in rows' : /\ r.indicator = i
                                              /\ r.date = date
                                              /\ r.value = value.value
      ]_vars

====
